---- MODULE Spec2Model ----
(***************************************************************************)
(* Action resolution and execution engine of playwright/llm-automation.    *)
(*                                                                         *)
(* Spec      EnhancedTestExecutor.execute_test (ai_test_agent.py) with      *)
(*           execute_action and its handlers, one model step per await of  *)
(*           a driver call.  A driver call either returns or raises; the   *)
(*           model takes both outcomes at every call.                      *)
(* SpecRunner  the step loop of EnhancedTestRunner.run_test_with_progress  *)
(*           (web_interface.py) with execute_action_with_screenshot, which *)
(*           hands the action types it does not handle to execute_action.  *)
(* SpecOrchestrators  both of the above.                                   *)
(* SpecWait  EnhancedTestExecutor._wait_for_element on a page that does    *)
(*           not change during the call, on a logical clock whose tick is  *)
(*           500 ms: a sub-wait that times out takes its whole timeout, the *)
(*           settle delay takes one tick, everything else takes no time.   *)
(* SpecLive  Spec with weak fairness of the executor's steps.              *)
(* SpecMissingTarget, SpecNativeClickFails  execute_test against a driver   *)
(*           whose answers are fixed for the click steps.                  *)
(* SpecGen   the candidate lists: generate_alternative_selectors with the   *)
(*           fallbacks _wait_for_element adds, and generate_smart_selectors.*)
(* SpecPlan  EnhancedAITestAgent._create_test_actions.                      *)
(* SpecArtifacts  successive calls of _wait_for_element in one process,    *)
(*           with the files their captures write.                          *)
(* SpecTiming  one step of execute_test on a logical clock.                *)
(* SpecSimple  SimpleTestAgent.execute_test_plan (simple_test_agent.py).   *)
(* SpecExt   EnhancedTestExecutor._execute_external_navigate.              *)
(* SpecRun   run_test_with_progress and cleanup of the three revisions of  *)
(*           EnhancedTestRunner.                                           *)
(* SpecOpt   EnhancedAITestAgent._optimize_actions.                        *)
(* SpecApi   EnhancedAITestAgent._make_api_call_with_retry.                *)
(*                                                                         *)
(* The action list is read by the for loop one element at a time; the      *)
(* model draws each element when the loop reads it (nActions is fixed at   *)
(* the start), so a state holds the current action and the results so far. *)
(***************************************************************************)
EXTENDS Integers, Sequences, FiniteSets, TLC

\* ------------------------------------------------------------------ bounds
MaxActions == 2
MaxRetry == 2

MaxCands == 3

MaxWords == 2

MaxData == 2

\* the clock of the process, in ticks, up to which calls are started
MaxClock == 3

\* the longest an invocation of execute_action takes, in ticks
MaxDuration == 2

\* the number of calls of a handler that are followed
MaxCalls == 2

\* the largest max_retries of _make_api_call_with_retry (its default is 3)
MaxApiRetries == 3

\* ------------------------------------------------------- program constants
\* max_attempts of _execute_click
max_attempts == 3
\* len(click_strategies) of _execute_click
NumStrategies == 4

None == "None"

\* ------------------------------------------------------------- data model
\* "drag" stands for an action_type outside the set execute_action accepts.
ActionTypes == {"navigate", "click", "fill", "press", "wait", "check", "drag"}

\* The types whose handler reads action.selector.
SelectorTypes == {"navigate", "click", "fill"}

TestAction ==
    { a \in [action_type : ActionTypes, selector : {None, "sel"},
             retry_count : 0..MaxRetry, screenshot : BOOLEAN] :
        a.action_type \notin SelectorTypes => a.selector = None }

NoAction ==
    [action_type |-> None, selector |-> None, retry_count |-> 0, screenshot |-> FALSE]

\* result = None in execute_test
NoResult ==
    [idx |-> 0, status |-> None, error |-> None, screenshot |-> None,
     screenshot_path |-> None, attempt |-> 0]

\* The text of the error a result carries, by the place that raised it.
Errors == {"ActionError", "CaptureError", "Unsupported action type"}

VARIABLES
    nActions,      \* len(test_actions)
    caller,        \* who runs the plan: execute_test, or the web runner
    i,             \* execute_test: 1-based index of the for loop
    action,        \* execute_test: the action of the current iteration
    attempt,       \* execute_test: attempt of the retry loop (0-based)
    result,        \* execute_test / execute_action: result
    results,       \* execute_test: results
    pc,            \* position of the executor (the await it is suspended at)
    clickAttempt,  \* _execute_click: attempt (0-based)
    element,       \* _execute_click: how element was obtained
    tried,         \* _execute_click: outcome of each strategy invoked in this attempt
    navTier,       \* _execute_navigate: outcome of the strict and of the fallback tier
    calls,         \* history: execute_action invocations for the current action
    slept,         \* history: a retry backoff sleep ran since the last failed attempt
    started,       \* history: number of loop iterations entered
    selectors_to_try, \* _wait_for_element: the generated list (candidates are numbered)
    dom,           \* the page: what each candidate matches
    timeout,       \* _wait_for_element: timeout, in ticks
    order,         \* _wait_for_element: iteration order of set(selectors_to_try)
    pos,             \* _wait_for_element: position of the for loop in order
    elapsed,       \* time.time() - start_time, in ticks
    w_pc,          \* _wait_for_element: position
    found,         \* _wait_for_element: the candidate whose element is returned (0: none)
    last_error,    \* _wait_for_element: last_error
    attempted,     \* history: the candidates a sub-wait was issued for, in order
    clean_selector, \* _wait_for_element: the stripped selector the candidates are generated from
    description,   \* generate_smart_selectors: the keywords description.lower() contains
    action_type,   \* generate_smart_selectors: action_type
    selectors,     \* generate_smart_selectors: selectors
    g_pc,          \* generate_smart_selectors: position
    actions_data,  \* _create_test_actions: the descriptors parsed from the generator's answer
    test_actions,  \* _create_test_actions: test_actions
    data_i,        \* _create_test_actions: 1-based position of the for loop (0: not running)
    start_time,    \* _wait_for_element: start_time, the clock at the call, in ticks
    artifacts,     \* the files written to error_screenshots/ since the process started
    overwritten,   \* a capture wrote a path that an earlier capture had written
    timing,        \* execute_test: the clock and the duration bookkeeping of one step
    simple,        \* SimpleTestAgent.execute_test_plan: position, inputs and results
    ext,           \* _execute_external_navigate: position, self.page, what the call opened
    refs,          \* EnhancedTestRunner: position of the run and the references it holds
    opt,           \* _optimize_actions: actions, optimized and the position of the loop
    api            \* _make_api_call_with_retry: position, attempt and history of the calls

execVars == <<nActions, caller, i, action, attempt, result, results, pc, clickAttempt,
              element, tried, navTier, calls, slept, started>>

waitVars == <<selectors_to_try, dom, timeout, order, pos, elapsed, w_pc, found,
              last_error, attempted>>

genVars == <<clean_selector, description, action_type, selectors, g_pc>>

planVars == <<actions_data, test_actions, data_i>>

artVars == <<start_time, artifacts, overwritten>>

\* the variables of the components that are modelled on their own
compVars == <<timing, simple, ext, refs, opt, api>>

\* the variables of the components other than the executor and the runner
otherVars == <<waitVars, genVars, planVars, artVars, compVars>>

vars == <<execVars, waitVars, genVars, planVars, artVars, compVars>>

clickVars == <<clickAttempt, element, tried>>
histVars == <<calls, slept, started>>

NoTier == [strict |-> None, loose |-> None]

\* _wait_for_element is not running
WaitIdle ==
    /\ selectors_to_try = <<>>
    /\ dom = <<>>
    /\ timeout = 0
    /\ order = <<>>
    /\ pos = 0
    /\ elapsed = 0
    /\ w_pc = "idle"
    /\ found = 0
    /\ last_error = None
    /\ attempted = <<>>
    /\ start_time = 0
    /\ artifacts = {}
    /\ overwritten = FALSE

\* no candidate generation is running
GenIdle ==
    /\ clean_selector = None
    /\ description = {}
    /\ action_type = None
    /\ selectors = <<>>
    /\ g_pc = "idle"

\* _create_test_actions is not running
PlanIdle ==
    /\ actions_data = <<>>
    /\ test_actions = <<>>
    /\ data_i = 0

\* the duration bookkeeping is not followed
TimingIdle ==
    timing = [pc |-> "idle"]

\* execute_test_plan is not running
SimpleIdle ==
    simple = [pc |-> "idle"]

\* _execute_external_navigate is not running
ExtIdle ==
    ext = [pc |-> "idle"]

\* run_test_with_progress is not running
RunIdle ==
    refs = [pc |-> "idle"]

\* _make_api_call_with_retry is not running
ApiIdle ==
    api = [pc |-> "idle"]

\* _optimize_actions is not running
OptIdle ==
    opt = [pc |-> "idle"]

\* none of the components modelled on their own is running
CompIdle ==
    /\ TimingIdle
    /\ SimpleIdle
    /\ ExtIdle
    /\ RunIdle
    /\ OptIdle
    /\ ApiIdle

\* ---------------------------------------------------------- execute_action
\* The result execute_action starts from.
NewResult(k) ==
    [idx |-> k, status |-> "passed", error |-> None, screenshot |-> None,
     screenshot_path |-> None, attempt |-> 0]

\* mutant: the except clause marks the result failed and leaves error unset
FailedNoError(r, msg) == [r EXCEPT !.status = "failed"]

\* result.update({'status': 'failed', 'error': error_msg})
Failed(r, msg) == [r EXCEPT !.status = "failed", !.error = msg]

\* mutant: the except clause does not catch the ValueError of an unsupported
\* action type, which then leaves execute_action and execute_test
RaiseUncaught(r, msg) ==
    IF msg = "Unsupported action type"
    THEN result' = r /\ pc' = "propagated"
    ELSE result' = Failed(r, msg) /\ pc' = "ea_errshot"

\* An exception leaves the handler (or the on-success capture) and is caught by
\* execute_action's except clause.
Raise(r, msg) ==
    /\ result' = Failed(r, msg)
    /\ pc' = "ea_errshot"

\* The handler returned normally: capture a screenshot if requested.
Returns(r) ==
    /\ result' = r
    /\ pc' = IF action.screenshot THEN "ea_shot" ELSE "ea_return"

\* Dispatch on action.action_type, up to the handler's first driver call.
Dispatch(a, r) ==
    CASE a.action_type = "navigate" ->
            \* url.startswith on a missing selector raises before any driver call
            IF a.selector = None THEN Raise(r, "ActionError")
            ELSE result' = r /\ pc' = "nav_goto"
      [] a.action_type = "click" ->
            IF a.selector = None THEN Raise(r, "ActionError")
            ELSE result' = r /\ pc' = "click_find"
      [] a.action_type = "fill" ->
            \* selector.strip() in _wait_for_element raises on a missing selector
            IF a.selector = None THEN Raise(r, "ActionError")
            ELSE result' = r /\ pc' = "fill_find"
      [] a.action_type = "press" -> result' = r /\ pc' = "press_key"
      [] a.action_type = "wait" -> result' = r /\ pc' = "wait_sleep"
      \* self._execute_check is not defined: AttributeError
      [] a.action_type = "check" -> Raise(r, "ActionError")
      [] OTHER -> Raise(r, "Unsupported action type")

\* result['screenshot'] = await self.page.screenshot(type='png') after success
CaptureOnSuccess ==
    /\ pc = "ea_shot"
    /\ \E ok \in BOOLEAN :
         IF ok THEN /\ result' = [result EXCEPT !.screenshot = "png"]
                    /\ pc' = "ea_return"
         ELSE Raise(result, "CaptureError")
    /\ UNCHANGED <<otherVars, nActions, caller, i, action, attempt, results, clickVars, navTier, histVars>>

\* mutant: a failure of the error screenshot becomes the error of the result
CaptureOnErrorReplaces ==
    /\ pc = "ea_errshot"
    /\ \E ok \in BOOLEAN :
         result' = IF ok THEN [result EXCEPT !.screenshot = "png"]
                   ELSE [result EXCEPT !.error = "CaptureError"]
    /\ pc' = "ea_return"
    /\ UNCHANGED <<otherVars, nActions, caller, i, action, attempt, results, clickVars, navTier, histVars>>

\* the error screenshot inside execute_action's except clause
CaptureOnError ==
    /\ pc = "ea_errshot"
    /\ \E ok \in BOOLEAN :
         result' = IF ok THEN [result EXCEPT !.screenshot = "png"] ELSE result
    /\ pc' = "ea_return"
    /\ UNCHANGED <<otherVars, nActions, caller, i, action, attempt, results, clickVars, navTier, histVars>>

\* ------------------------------------------------------- _execute_navigate
NavGoto ==
    /\ pc = "nav_goto"
    /\ \E ok \in BOOLEAN :
         IF ok THEN pc' = "nav_idle" /\ UNCHANGED navTier
         ELSE pc' = "nav_fallback" /\ navTier' = [navTier EXCEPT !.strict = "raised"]
    /\ UNCHANGED <<otherVars, nActions, caller, i, action, attempt, result, results, clickVars, histVars>>

NavNetworkIdle ==
    /\ pc = "nav_idle"
    /\ \E ok \in BOOLEAN :
         IF ok THEN Returns(result) /\ navTier' = [navTier EXCEPT !.strict = "ok"]
         ELSE /\ pc' = "nav_fallback"
              /\ navTier' = [navTier EXCEPT !.strict = "raised"]
              /\ UNCHANGED result
    /\ UNCHANGED <<otherVars, nActions, caller, i, action, attempt, results, clickVars, histVars>>

NavFallback ==
    /\ pc = "nav_fallback"
    /\ \E ok \in BOOLEAN :
         IF ok THEN Returns(result) /\ navTier' = [navTier EXCEPT !.loose = "ok"]
         ELSE Raise(result, "ActionError") /\ navTier' = [navTier EXCEPT !.loose = "raised"]
    /\ UNCHANGED <<otherVars, nActions, caller, i, action, attempt, results, clickVars, histVars>>

\* ---------------------------------------------------------- _execute_click
\* The outer except clause of one click attempt.
ClickAttemptFailed ==
    pc' = IF clickAttempt = max_attempts - 1 THEN "click_shot" ELSE "click_backoff"

\* A strategy (or the wait after it) raised: try the next one, or give up.
StrategyFailed(k) ==
    IF k < NumStrategies THEN pc' = "click_pause" ELSE ClickAttemptFailed

ClickFind ==
    /\ pc = "click_find"
    /\ \E ok \in BOOLEAN :
         IF ok THEN pc' = "click_scroll" /\ element' = "visible"
         ELSE pc' = "click_query" /\ UNCHANGED element
    /\ UNCHANGED <<otherVars, nActions, caller, i, action, attempt, result, results, clickAttempt,
                   tried, navTier, histVars>>

ClickQuery ==
    /\ pc = "click_query"
    /\ \E r \in {"raised", "empty", "found"} :
         IF r = "found" THEN pc' = "click_scroll" /\ element' = "queried"
         ELSE ClickAttemptFailed /\ UNCHANGED element
    /\ UNCHANGED <<otherVars, nActions, caller, i, action, attempt, result, results, clickAttempt,
                   tried, navTier, histVars>>

ClickScroll ==
    /\ pc = "click_scroll"
    /\ \E ok \in BOOLEAN : IF ok THEN pc' = "click_settle" ELSE ClickAttemptFailed
    /\ UNCHANGED <<otherVars, nActions, caller, i, action, attempt, result, results, clickVars,
                   navTier, histVars>>

ClickSettle ==
    /\ pc = "click_settle"
    /\ \E ok \in BOOLEAN : IF ok THEN pc' = "click_highlight" ELSE ClickAttemptFailed
    /\ UNCHANGED <<otherVars, nActions, caller, i, action, attempt, result, results, clickVars,
                   navTier, histVars>>

\* the highlight is inside its own try/except: either outcome goes on
ClickHighlight ==
    /\ pc = "click_highlight"
    /\ pc' = "click_strategy"
    /\ tried' = <<>>
    /\ UNCHANGED <<otherVars, nActions, caller, i, action, attempt, result, results, clickAttempt,
                   element, navTier, histVars>>

ClickStrategy ==
    /\ pc = "click_strategy"
    /\ \E ok \in BOOLEAN :
         IF ok THEN pc' = "click_verify" /\ tried' = Append(tried, "ok")
         ELSE StrategyFailed(Len(tried) + 1) /\ tried' = Append(tried, "raised")
    /\ UNCHANGED <<otherVars, nActions, caller, i, action, attempt, result, results, clickAttempt,
                   element, navTier, histVars>>

\* wait_for_timeout(1000) after the strategy succeeded, inside the same try
ClickVerify ==
    /\ pc = "click_verify"
    /\ \E ok \in BOOLEAN :
         IF ok THEN Returns(result)
         ELSE StrategyFailed(Len(tried)) /\ UNCHANGED result
    /\ UNCHANGED <<otherVars, nActions, caller, i, action, attempt, results, clickVars, navTier, histVars>>

\* mutant: falling back to the next strategy uses up an attempt of execute_test
ClickPauseConsumesRetry ==
    /\ pc = "click_pause"
    /\ \E ok \in BOOLEAN : IF ok THEN pc' = "click_strategy" ELSE ClickAttemptFailed
    /\ attempt' = attempt + 1
    /\ UNCHANGED <<otherVars, nActions, caller, i, action, result, results, clickVars,
                   navTier, histVars>>

\* wait_for_timeout(500) inside the strategy's except clause
ClickPause ==
    /\ pc = "click_pause"
    /\ \E ok \in BOOLEAN : IF ok THEN pc' = "click_strategy" ELSE ClickAttemptFailed
    /\ UNCHANGED <<otherVars, nActions, caller, i, action, attempt, result, results, clickVars,
                   navTier, histVars>>

\* the screenshot before the last attempt gives up; then the raise
ClickGiveUp ==
    /\ pc = "click_shot"
    /\ Raise(result, "ActionError")
    /\ UNCHANGED <<otherVars, nActions, caller, i, action, attempt, results, clickVars, navTier, histVars>>

\* asyncio.sleep(2 ** attempt), then the next attempt
ClickBackoff ==
    /\ pc = "click_backoff"
    /\ clickAttempt' = clickAttempt + 1
    /\ element' = None
    /\ tried' = <<>>
    /\ pc' = "click_find"
    /\ UNCHANGED <<otherVars, nActions, caller, i, action, attempt, result, results, navTier, histVars>>

\* ------------------------------------- _execute_fill, _execute_press, _execute_wait
\* The ways a call of _wait_for_element ends for its caller: it returns an
\* element, it raises, or it stays suspended in a sub-wait that was issued with
\* timeout 0, which the driver takes as no timeout (SpecWait reaches each).
WaitOutcomes == {"returned", "raised", "hung"}

\* _wait_for_element as execute_action sees it
FillFind ==
    /\ pc = "fill_find"
    /\ \E r \in WaitOutcomes :
         CASE r = "returned" -> pc' = "fill_clear" /\ UNCHANGED result
           [] r = "raised" -> Raise(result, "ActionError")
           [] OTHER -> pc' = "hung" /\ UNCHANGED result
    /\ UNCHANGED <<otherVars, nActions, caller, i, action, attempt, results, clickVars, navTier, histVars>>

\* element.clear(), wait_for_timeout(200)
FillClear ==
    /\ pc = "fill_clear"
    /\ \E ok \in BOOLEAN :
         IF ok THEN pc' = "fill_type" /\ UNCHANGED result
         ELSE Raise(result, "ActionError")
    /\ UNCHANGED <<otherVars, nActions, caller, i, action, attempt, results, clickVars, navTier, histVars>>

FillType ==
    /\ pc = "fill_type"
    /\ \E ok \in BOOLEAN :
         IF ok THEN Returns(result) ELSE Raise(result, "ActionError")
    /\ UNCHANGED <<otherVars, nActions, caller, i, action, attempt, results, clickVars, navTier, histVars>>

PressKey ==
    /\ pc = "press_key"
    /\ \E ok \in BOOLEAN :
         IF ok THEN Returns(result) ELSE Raise(result, "ActionError")
    /\ UNCHANGED <<otherVars, nActions, caller, i, action, attempt, results, clickVars, navTier, histVars>>

WaitSleep ==
    /\ pc = "wait_sleep"
    /\ Returns(result)
    /\ UNCHANGED <<otherVars, nActions, caller, i, action, attempt, results, clickVars, navTier, histVars>>

\* ------------------------------------------------------------ execute_test
\* mutant: one attempt too many
MoreAttemptsOffByOne(a, n) == n <= a.retry_count

\* for attempt in range(max_retries): the loop goes on while this holds
MoreAttempts(a, n) == n < a.retry_count

\* mutant: only a result that passed is appended
TruthyOnlyPassed(r) == r # NoResult /\ r.status = "passed"

\* if result:
Truthy(r) == r # NoResult

\* mutant: the legacy policy, stop the plan at the first failed step
AfterStepStopOnFailure(r) == IF r.status = "failed" THEN "done" ELSE "step_sleep"

\* where the loop over the actions goes once a step's result is handled
AfterStep(r) == "step_sleep"

\* for i, action in enumerate(test_actions, 1)
ReadAction ==
    /\ pc = "loop"
    /\ i <= nActions
    /\ \E a \in TestAction : action' = a
    /\ attempt' = 0
    /\ result' = NoResult
    /\ calls' = 0
    /\ slept' = TRUE
    /\ started' = started + 1
    /\ pc' = "retry"
    /\ UNCHANGED <<otherVars, nActions, caller, i, results, clickVars, navTier>>

\* return results
ReturnResults ==
    /\ pc = "loop"
    /\ i > nActions
    /\ pc' = "done"
    /\ UNCHANGED <<otherVars, nActions, caller, i, action, attempt, result, results, clickVars,
                   navTier, histVars>>

\* One more iteration of the retry loop: execute_action runs up to the
\* handler's first driver call.
StartAttempt ==
    /\ pc = "retry"
    /\ MoreAttempts(action, attempt)
    /\ Dispatch(action, NewResult(i))
    /\ calls' = calls + 1
    /\ UNCHANGED <<otherVars, nActions, caller, i, action, attempt, results, clickVars, navTier,
                   slept, started>>

\* The retry loop ends because range(max_retries) is used up.
RetriesExhausted ==
    /\ pc = "retry"
    /\ ~MoreAttempts(action, attempt)
    /\ pc' = "record"
    /\ UNCHANGED <<otherVars, nActions, caller, i, action, attempt, result, results, clickVars,
                   navTier, histVars>>

\* mutant: the retry loop does not break on 'passed'
AfterAttemptNoBreak ==
    /\ pc = "ea_return"
    /\ caller = "execute_test"
    /\ result' = [result EXCEPT !.attempt = attempt + 1]
    /\ pc' = "retry"
    /\ attempt' = attempt + 1
    /\ slept' = FALSE
    /\ clickAttempt' = 0
    /\ element' = None
    /\ tried' = <<>>
    /\ navTier' = NoTier
    /\ UNCHANGED <<otherVars, nActions, caller, i, action, results, calls, started>>

\* execute_action returned: number the attempt, break on 'passed', else loop
\* (the else branch only records last_error: no sleep before the next attempt)
AfterAttempt ==
    /\ pc = "ea_return"
    /\ caller = "execute_test"
    /\ result' = [result EXCEPT !.attempt = attempt + 1]
    /\ IF result.status = "passed"
       THEN pc' = "record" /\ UNCHANGED <<attempt, slept>>
       ELSE pc' = "retry" /\ attempt' = attempt + 1 /\ slept' = FALSE
    /\ clickAttempt' = 0
    /\ element' = None
    /\ tried' = <<>>
    /\ navTier' = NoTier
    /\ UNCHANGED <<otherVars, nActions, caller, i, action, results, calls, started>>

\* What a state keeps of an appended result: the fields of the report the
\* properties read.  The screenshot fields of the step are read on result.
Entry(r) == [idx |-> r.idx, status |-> r.status, error |-> r.error, attempt |-> r.attempt]

\* mutant: the error screenshot is saved for every failed step
RecordAlwaysCapture ==
    /\ pc = "record"
    /\ IF Truthy(result)
       THEN /\ results' = Append(results, Entry(result))
            /\ pc' = IF result.status = "failed" THEN "err_save" ELSE AfterStep(result)
       ELSE /\ pc' = AfterStep(result)
            /\ UNCHANGED results
    /\ UNCHANGED <<otherVars, nActions, caller, i, action, attempt, result, clickVars, navTier, histVars>>

\* if result: results.append(result), then the check for a missing screenshot
Record ==
    /\ pc = "record"
    /\ IF Truthy(result)
       THEN /\ results' = Append(results, Entry(result))
            /\ pc' = IF result.status = "failed" /\ result.screenshot = None
                     THEN "err_save" ELSE AfterStep(result)
       ELSE /\ pc' = AfterStep(result)
            /\ UNCHANGED results
    /\ UNCHANGED <<otherVars, nActions, caller, i, action, attempt, result, clickVars, navTier, histVars>>

\* page.screenshot(path=...) for a failed step without a screenshot
SaveErrorScreenshot ==
    /\ pc = "err_save"
    /\ \E ok \in BOOLEAN :
         result' = IF ok THEN [result EXCEPT !.screenshot_path = "path"] ELSE result
    /\ pc' = AfterStep(result)
    /\ UNCHANGED <<otherVars, nActions, caller, i, action, attempt, results, clickVars, navTier, histVars>>

\* await asyncio.sleep(0.5), then the next action
StepSleep ==
    /\ pc = "step_sleep"
    /\ i' = i + 1
    /\ pc' = "loop"
    /\ UNCHANGED <<otherVars, nActions, caller, action, attempt, result, results, clickVars,
                   navTier, histVars>>

Init ==
    /\ nActions \in 0..MaxActions
    /\ caller = "execute_test"
    /\ i = 1
    /\ action = NoAction
    /\ attempt = 0
    /\ result = NoResult
    /\ results = <<>>
    /\ pc = "loop"
    /\ clickAttempt = 0
    /\ element = None
    /\ tried = <<>>
    /\ navTier = NoTier
    /\ calls = 0
    /\ slept = TRUE
    /\ started = 0
    /\ WaitIdle
    /\ GenIdle
    /\ PlanIdle
    /\ CompIdle

Next ==
    \/ ReadAction
    \/ ReturnResults
    \/ StartAttempt
    \/ RetriesExhausted
    \/ AfterAttempt
    \/ Record
    \/ SaveErrorScreenshot
    \/ StepSleep
    \/ CaptureOnSuccess
    \/ CaptureOnError
    \/ NavGoto
    \/ NavNetworkIdle
    \/ NavFallback
    \/ ClickFind
    \/ ClickQuery
    \/ ClickScroll
    \/ ClickSettle
    \/ ClickHighlight
    \/ ClickStrategy
    \/ ClickVerify
    \/ ClickPause
    \/ ClickGiveUp
    \/ ClickBackoff
    \/ FillFind
    \/ FillClear
    \/ FillType
    \/ PressKey
    \/ WaitSleep

Spec == Init /\ [][Next]_vars

\* execute_test is the only coroutine of the run: the event loop resumes it
\* whenever the call it awaits has returned or raised.
SpecLive == Init /\ [][Next]_vars /\ WF_vars(Next)

\* ================================= execute_test on the plan navigate, click, fill
\* The plan of the scenario; every action has a selector and a retry_count of
\* at least 1.
ScenarioPlan == <<"navigate", "click", "fill">>

\* The driver of the scenario: the target of the click is never found (the
\* wait for the selector raises and the query finds no element), every other
\* call succeeds.
MissingTargetDriver ==
    /\ (pc = "loop" /\ i <= nActions)
          => /\ action'.action_type = ScenarioPlan[i]
             /\ action'.selector # None
             /\ action'.retry_count >= 1
    /\ pc = "click_find" => pc' = "click_query"
    /\ pc = "click_query" => element' = None
    /\ pc \in {"nav_goto", "nav_idle", "fill_find", "fill_clear", "fill_type", "ea_shot"}
          => (result'.status = "passed" /\ pc' \notin {"nav_fallback", "hung"})
    /\ pc = "ea_errshot" => result'.screenshot # None

InitMissingTarget ==
    /\ nActions = Len(ScenarioPlan)
    /\ caller = "execute_test"
    /\ i = 1
    /\ action = NoAction
    /\ attempt = 0
    /\ result = NoResult
    /\ results = <<>>
    /\ pc = "loop"
    /\ clickAttempt = 0
    /\ element = None
    /\ tried = <<>>
    /\ navTier = NoTier
    /\ calls = 0
    /\ slept = TRUE
    /\ started = 0
    /\ WaitIdle
    /\ GenIdle
    /\ PlanIdle
    /\ CompIdle

NextMissingTarget ==
    /\ \/ ReadAction
       \/ ReturnResults
       \/ StartAttempt
       \/ RetriesExhausted
       \/ AfterAttempt
       \/ Record
       \/ StepSleep
       \/ CaptureOnSuccess
       \/ CaptureOnError
       \/ NavGoto
       \/ NavNetworkIdle
       \/ ClickFind
       \/ ClickQuery
       \/ ClickGiveUp
       \/ ClickBackoff
       \/ FillFind
       \/ FillClear
       \/ FillType
    /\ MissingTargetDriver

SpecMissingTarget == InitMissingTarget /\ [][NextMissingTarget]_vars

\* ========================= execute_test with a native click that always raises
\* The driver of the scenario, for the click steps of the plan: the element is
\* found, element.click (the first strategy) raises, the dispatched MouseEvent
\* (the second strategy) succeeds, and so does every other call of the step.
\* A click step has a selector and a retry_count of at least 1.  The other
\* steps of the plan are as in Spec.
NativeClickFailsDriver ==
    /\ (pc = "loop" /\ i <= nActions /\ action'.action_type = "click")
          => (action'.selector # None /\ action'.retry_count >= 1)
    /\ action.action_type = "click"
          => /\ pc = "click_find" => element' = "visible"
             /\ pc \in {"click_scroll", "click_settle", "click_pause"}
                   => pc' \notin {"click_shot", "click_backoff"}
             /\ pc = "click_strategy"
                   => tried' = Append(tried, IF tried = <<>> THEN "raised" ELSE "ok")
             /\ pc \in {"click_verify", "ea_shot"} => result'.status = "passed"
             /\ pc = "click_verify" => pc' # "click_pause"

NextNativeClickFails ==
    /\ \/ ReadAction
       \/ ReturnResults
       \/ StartAttempt
       \/ RetriesExhausted
       \/ AfterAttempt
       \/ Record
       \/ SaveErrorScreenshot
       \/ StepSleep
       \/ CaptureOnSuccess
       \/ CaptureOnError
       \/ NavGoto
       \/ NavNetworkIdle
       \/ NavFallback
       \/ ClickFind
       \/ ClickScroll
       \/ ClickSettle
       \/ ClickHighlight
       \/ ClickStrategy
       \/ ClickVerify
       \/ ClickPause
       \/ FillFind
       \/ FillClear
       \/ FillType
       \/ PressKey
       \/ WaitSleep
    /\ NativeClickFailsDriver

SpecNativeClickFails == Init /\ [][NextNativeClickFails]_vars

\* ===================================== web_interface.py: EnhancedTestRunner
\* The action types execute_action_with_screenshot handles itself.
RunnerTypes == {"navigate", "click", "fill", "wait"}

\* The runner never reads retry_count: the actions are drawn with one value.
RunnerAction == { a \in TestAction : a.retry_count = 0 }

\* the entry run_test_with_progress appends for a step
RunnerEntry(k, status, err) ==
    [idx |-> k, status |-> status, error |-> err, attempt |-> 0]

\* execute_action_with_screenshot raised inside its try
RunnerRaise == pc' = "r_errshot"

\* for i, action in enumerate(test_actions, 1)
RunnerRead ==
    /\ pc = "r_loop"
    /\ i <= nActions
    /\ \E a \in RunnerAction : action' = a
    /\ result' = NoResult
    /\ calls' = 0
    /\ started' = started + 1
    /\ pc' = "r_exec"
    /\ UNCHANGED <<otherVars, nActions, caller, i, attempt, results, clickVars, navTier, slept>>

\* return results
RunnerReturn ==
    /\ pc = "r_loop"
    /\ i > nActions
    /\ pc' = "done"
    /\ UNCHANGED <<otherVars, nActions, caller, i, action, attempt, result, results, clickVars,
                   navTier, histVars>>

\* execute_action_with_screenshot up to the first driver call
RunnerExecute ==
    /\ pc = "r_exec"
    /\ calls' = calls + 1
    /\ CASE action.action_type = "navigate" ->
               \* '://' in action.selector raises on a missing selector
               /\ IF action.selector = None THEN RunnerRaise ELSE pc' = "r_goto"
               /\ UNCHANGED result
         [] action.action_type = "click" -> pc' = "r_click_find" /\ UNCHANGED result
         [] action.action_type = "fill" -> pc' = "r_fill" /\ UNCHANGED result
         [] action.action_type = "wait" -> pc' = "r_wait" /\ UNCHANGED result
         \* await self.test_executor.execute_action(action)
         [] OTHER -> Dispatch(action, NewResult(i))
    /\ UNCHANGED <<otherVars, nActions, caller, i, action, attempt, results, clickVars, navTier,
                   slept, started>>

RunnerGoto ==
    /\ pc = "r_goto"
    /\ \E ok \in BOOLEAN : IF ok THEN pc' = "r_capture" ELSE RunnerRaise
    /\ UNCHANGED <<otherVars, nActions, caller, i, action, attempt, result, results, clickVars,
                   navTier, histVars>>

RunnerClickFind ==
    /\ pc = "r_click_find"
    /\ \E ok \in BOOLEAN : IF ok THEN pc' = "r_click_scroll" ELSE RunnerRaise
    /\ UNCHANGED <<otherVars, nActions, caller, i, action, attempt, result, results, clickVars,
                   navTier, histVars>>

RunnerClickScroll ==
    /\ pc = "r_click_scroll"
    /\ \E ok \in BOOLEAN : IF ok THEN pc' = "r_click_click" ELSE RunnerRaise
    /\ UNCHANGED <<otherVars, nActions, caller, i, action, attempt, result, results, clickVars,
                   navTier, histVars>>

RunnerClickClick ==
    /\ pc = "r_click_click"
    /\ \E ok \in BOOLEAN : IF ok THEN pc' = "r_capture" ELSE RunnerRaise
    /\ UNCHANGED <<otherVars, nActions, caller, i, action, attempt, result, results, clickVars,
                   navTier, histVars>>

RunnerFill ==
    /\ pc = "r_fill"
    /\ \E ok \in BOOLEAN : IF ok THEN pc' = "r_capture" ELSE RunnerRaise
    /\ UNCHANGED <<otherVars, nActions, caller, i, action, attempt, result, results, clickVars,
                   navTier, histVars>>

RunnerWait ==
    /\ pc = "r_wait"
    /\ pc' = "r_capture"
    /\ UNCHANGED <<otherVars, nActions, caller, i, action, attempt, result, results, clickVars,
                   navTier, histVars>>

\* execute_action returned to execute_action_with_screenshot, which does not
\* read the result
RunnerDelegateReturn ==
    /\ pc = "ea_return"
    /\ caller = "runner"
    /\ pc' = "r_capture"
    /\ UNCHANGED <<otherVars, nActions, caller, i, action, attempt, result, results, clickVars,
                   navTier, histVars>>

\* capture_screenshot (it returns None when the capture raises), the 'passed'
\* dict, and the append in run_test_with_progress
RunnerCapture ==
    /\ pc = "r_capture"
    /\ results' = Append(results, RunnerEntry(i, "passed", None))
    /\ i' = i + 1
    /\ pc' = "r_loop"
    /\ UNCHANGED <<otherVars, nActions, caller, action, attempt, result, clickVars, navTier,
                   histVars>>

\* the except clause of execute_action_with_screenshot: capture_error_screenshot
\* (it never raises), then raise Exception("Action failed: ...")
RunnerErrorShot ==
    /\ pc = "r_errshot"
    /\ pc' = "r_except"
    /\ UNCHANGED <<otherVars, nActions, caller, i, action, attempt, result, results, clickVars,
                   navTier, histVars>>

\* the except clause of the step loop: error_result is appended
RunnerExcept ==
    /\ pc = "r_except"
    /\ results' = Append(results, RunnerEntry(i, "failed", "ActionError"))
    /\ i' = i + 1
    /\ pc' = "r_loop"
    /\ UNCHANGED <<otherVars, nActions, caller, action, attempt, result, clickVars, navTier,
                   histVars>>

InitRunner ==
    /\ nActions \in 0..MaxActions
    /\ caller = "runner"
    /\ i = 1
    /\ action = NoAction
    /\ attempt = 0
    /\ result = NoResult
    /\ results = <<>>
    /\ pc = "r_loop"
    /\ clickAttempt = 0
    /\ element = None
    /\ tried = <<>>
    /\ navTier = NoTier
    /\ calls = 0
    /\ slept = TRUE
    /\ started = 0
    /\ WaitIdle
    /\ GenIdle
    /\ PlanIdle
    /\ CompIdle

NextRunner ==
    \/ RunnerRead
    \/ RunnerReturn
    \/ RunnerExecute
    \/ RunnerGoto
    \/ RunnerClickFind
    \/ RunnerClickScroll
    \/ RunnerClickClick
    \/ RunnerFill
    \/ RunnerWait
    \/ RunnerDelegateReturn
    \/ RunnerCapture
    \/ RunnerErrorShot
    \/ RunnerExcept
    \/ CaptureOnSuccess
    \/ CaptureOnError
    \/ PressKey

SpecRunner == InitRunner /\ [][NextRunner]_vars

InitOrchestrators == Init \/ InitRunner

NextOrchestrators == Next \/ NextRunner

SpecOrchestrators == InitOrchestrators /\ [][NextOrchestrators]_vars

\* ================================================== _wait_for_element
\* the lists over the candidates 1..MaxCands in which a candidate is numbered
\* by its first occurrence (the names of the candidates do not matter)
CandidateLists ==
    { l \in UNION { [1..n -> 1..MaxCands] : n \in 1..MaxCands } :
        \A j \in 1..Len(l) : \E m \in 0..(j - 1) :
            /\ l[j] <= m + 1
            /\ \A h \in 1..(j - 1) : l[h] <= m }

Range(l) == { l[j] : j \in 1..Len(l) }

\* what a candidate matches on the page: nothing, an element that is visible
\* but not enabled, or an element that is visible and enabled
Matches == {"absent", "disabled", "ok"}

\* wait_timeout of a TestAction (10000 ms), the hover added by
\* _optimize_actions (5000 ms), in ticks
Timeouts == {10, 20}

\* min(5000, ...): the cap of one sub-wait, in ticks
SubWaitCap == 10

\* wait_for_timeout(500), in ticks
SettleTicks == 1

\* selectors_to_try[:5]: how many candidates the error message names
NamedMax == 5

\* one second of the clock, in ticks
TicksPerSecond == 2

Min(a, b) == IF a < b THEN a ELSE b

\* the orders in which iterating over set(selectors_to_try) can yield its
\* elements: the order of a set of strings is fixed by their hashes, which
\* differ from one process to the next, and not by the list
IterationOrders(S) ==
    { o \in [1..Cardinality(S) -> S] : \A a, b \in 1..Cardinality(S) : o[a] = o[b] => a = b }

\* the element of the current iteration
Candidate == order[pos]

\* one iteration ended without a return: on to the next candidate
NextCandidate ==
    /\ pos' = pos + 1
    /\ w_pc' = "loop"

\* for selector_to_try in set(selectors_to_try)
WaitIterate ==
    /\ w_pc = "start"
    /\ \E o \in IterationOrders(Range(selectors_to_try)) : order' = o
    /\ pos' = 1
    /\ w_pc' = "loop"
    /\ UNCHANGED <<execVars, planVars, genVars, artVars, compVars, selectors_to_try, dom, timeout, elapsed, found,
                   last_error, attempted>>

\* the loop ends when the set is used up, or breaks when the budget is spent
WaitLoop ==
    /\ w_pc = "loop"
    /\ w_pc' = IF pos > Len(order) \/ elapsed > timeout THEN "diag" ELSE "wait"
    /\ UNCHANGED <<execVars, planVars, genVars, artVars, compVars, selectors_to_try, dom, timeout, order, pos, elapsed,
                   found, last_error, attempted>>

\* page.wait_for_selector(selector_to_try, state='visible', timeout=min(5000, rest));
\* a timeout of 0 disables the driver's timeout
WaitForSelector ==
    /\ w_pc = "wait"
    /\ attempted' = Append(attempted, Candidate)
    /\ LET t == Min(SubWaitCap, timeout - elapsed) IN
         IF dom[Candidate] # "absent"
         THEN w_pc' = "scroll" /\ UNCHANGED <<pos, elapsed, last_error>>
         ELSE IF t = 0
              THEN w_pc' = "hung" /\ UNCHANGED <<pos, elapsed, last_error>>
              ELSE /\ elapsed' = elapsed + t
                   /\ last_error' = "TimeoutError"
                   /\ NextCandidate
    /\ UNCHANGED <<execVars, planVars, genVars, artVars, compVars, selectors_to_try, dom, timeout, order, found>>

\* element.scroll_into_view_if_needed()
WaitScroll ==
    /\ w_pc = "scroll"
    /\ \E ok \in BOOLEAN :
         IF ok THEN w_pc' = "settle" /\ UNCHANGED <<pos, last_error>>
         ELSE last_error' = "Error" /\ NextCandidate
    /\ UNCHANGED <<execVars, planVars, genVars, artVars, compVars, selectors_to_try, dom, timeout, order, elapsed, found,
                   attempted>>

\* page.wait_for_timeout(500)
WaitSettle ==
    /\ w_pc = "settle"
    /\ \E ok \in BOOLEAN :
         IF ok THEN w_pc' = "check" /\ elapsed' = elapsed + SettleTicks
                    /\ UNCHANGED <<pos, last_error>>
         ELSE last_error' = "Error" /\ NextCandidate /\ UNCHANGED elapsed
    /\ UNCHANGED <<execVars, planVars, genVars, artVars, compVars, selectors_to_try, dom, timeout, order, found, attempted>>

\* the return of whatever element the sub-wait found, unchecked
WaitCheckAny ==
    /\ w_pc = "check"
    /\ \E ok \in BOOLEAN :
         IF ~ok THEN last_error' = "Error" /\ NextCandidate /\ UNCHANGED found
         ELSE found' = Candidate /\ w_pc' = "returned" /\ UNCHANGED <<pos, last_error>>
    /\ UNCHANGED <<execVars, planVars, genVars, artVars, compVars, selectors_to_try, dom, timeout, order, elapsed, attempted>>

\* is_visible(), is_enabled(), and the return of an element that is both
WaitCheck ==
    /\ w_pc = "check"
    /\ \E ok \in BOOLEAN :
         IF ~ok THEN last_error' = "Error" /\ NextCandidate /\ UNCHANGED found
         ELSE IF dom[Candidate] = "ok"
              THEN found' = Candidate /\ w_pc' = "returned" /\ UNCHANGED <<pos, last_error>>
              ELSE NextCandidate /\ UNCHANGED <<found, last_error>>
    /\ UNCHANGED <<execVars, planVars, genVars, artVars, compVars, selectors_to_try, dom, timeout, order, elapsed, attempted>>

\* ', '.join(selectors_to_try[:5]): the candidates named in the message
Named == SubSeq(selectors_to_try, 1, Min(NamedMax, Len(selectors_to_try)))

\* strftime("%Y%m%d_%H%M%S") of the clock at tick t: the second it falls in
Timestamp(t) == t \div TicksPerSecond

\* the screenshot and the page source, written to a path made of the timestamp
\* of the moment, inside a try/except, then the raise
WaitDiagnostics ==
    /\ w_pc = "diag"
    /\ w_pc' = "raised"
    /\ \E ok \in BOOLEAN :
         IF ok
         THEN LET screenshot_path == [name |-> "element_not_found",
                                      timestamp |-> Timestamp(start_time + elapsed)] IN
                /\ artifacts' = artifacts \cup {screenshot_path}
                /\ overwritten' = (overwritten \/ screenshot_path \in artifacts)
         ELSE UNCHANGED <<artifacts, overwritten>>
    /\ UNCHANGED <<execVars, planVars, genVars, compVars, start_time, selectors_to_try, dom, timeout, order,
                   pos, elapsed, found, last_error, attempted>>

\* The handler is invoked again for the same step, by the retry loop of
\* execute_test, with no sleep in between: the next call of _wait_for_element,
\* on the same page, at a clock not before the end of the previous call.
WaitAgain ==
    /\ w_pc = "raised"
    /\ \E t \in (start_time + elapsed)..MaxClock : start_time' = t
    /\ w_pc' = "start"
    /\ order' = <<>>
    /\ pos' = 0
    /\ elapsed' = 0
    /\ found' = 0
    /\ last_error' = None
    /\ attempted' = <<>>
    /\ UNCHANGED <<execVars, planVars, genVars, compVars, artifacts, overwritten, selectors_to_try, dom,
                   timeout>>

\* The loop of _wait_for_element as a function of the iteration order o, from
\* position p at time e, on the page dom with a driver that answers by the
\* page alone (its calls on an element that is present do not raise): how the
\* call ends.
RECURSIVE WaitRun(_, _, _)
WaitRun(o, p, e) ==
    IF p > Len(o) \/ e > timeout THEN "raised"
    ELSE LET t == Min(SubWaitCap, timeout - e) IN
         CASE dom[o[p]] = "absent" ->
                  IF t = 0 THEN "hung" ELSE WaitRun(o, p + 1, e + t)
           [] dom[o[p]] = "ok" -> "returned"
           [] OTHER -> WaitRun(o, p + 1, e + SettleTicks)

\* the executor and the runner are not running
ExecIdle ==
    /\ nActions = 0
    /\ caller = None
    /\ i = 1
    /\ action = NoAction
    /\ attempt = 0
    /\ result = NoResult
    /\ results = <<>>
    /\ pc = "idle"
    /\ clickAttempt = 0
    /\ element = None
    /\ tried = <<>>
    /\ navTier = NoTier
    /\ calls = 0
    /\ slept = TRUE
    /\ started = 0

InitWait ==
    /\ ExecIdle
    /\ selectors_to_try \in CandidateLists
    /\ dom \in [Range(selectors_to_try) -> Matches]
    /\ timeout \in Timeouts
    /\ order = <<>>
    /\ pos = 0
    /\ elapsed = 0
    /\ w_pc = "start"
    /\ found = 0
    /\ last_error = None
    /\ attempted = <<>>
    /\ start_time = 0
    /\ artifacts = {}
    /\ overwritten = FALSE
    /\ GenIdle
    /\ PlanIdle
    /\ CompIdle

NextWait ==
    \/ WaitIterate
    \/ WaitLoop
    \/ WaitForSelector
    \/ WaitScroll
    \/ WaitSettle
    \/ WaitCheck
    \/ WaitDiagnostics

SpecWait == InitWait /\ [][NextWait]_vars

\* successive calls of _wait_for_element in one process
NextArtifacts ==
    \/ NextWait
    \/ WaitAgain

SpecArtifacts == InitWait /\ [][NextArtifacts]_vars

\* ======================================================= candidate generation
\* A text is its words and what separates them.  A word stands for two or more
\* letters; what the model keeps of it is its case form, which is all the
\* case conversions change: all lower case, all upper case, a capital followed
\* by lower case, or anything else.
Cases == {"lower", "upper", "title", "mixed"}

Text(ws, sep) == [words |-> ws, sep |-> IF Len(ws) <= 1 THEN " " ELSE sep]

EmptyText == Text(<<>>, " ")

\* str.upper(), str.lower(), str.title(), str.capitalize()
Upper(t) == [t EXCEPT !.words = [j \in DOMAIN t.words |-> "upper"]]

Lower(t) == [t EXCEPT !.words = [j \in DOMAIN t.words |-> "lower"]]

Title(t) == [t EXCEPT !.words = [j \in DOMAIN t.words |-> "title"]]

Capitalize(t) ==
    [t EXCEPT !.words = [j \in DOMAIN t.words |-> IF j = 1 THEN "title" ELSE "lower"]]

\* str.replace(" ", c)
ReplaceSpaces(t, c) == IF t.sep = " " THEN Text(t.words, c) ELSE t

\* The targets the generator is run on: words of letters separated by single
\* spaces, behind 'text=' or not, with 'button' or 'btn' among the letters or
\* not, and with none of the other substrings the generator tests for
\* (brackets, quotes, 'class', the names in data_attrs).
Targets ==
    { sel \in [text_prefix : BOOLEAN, button : BOOLEAN,
               text : { Text(ws, " ") :
                          ws \in UNION { [1..n -> Cases] : n \in 0..MaxWords } }] :
        sel.button => sel.text # EmptyText }

\* A generated selector: the literal it is formatted from, and the text put
\* in the place of {}; text_prefix tells a text that still starts with 'text='.
Sel(tpl, t) == [tpl |-> tpl, text_prefix |-> FALSE, text |-> t]

RECURSIVE Flatten(_)
Flatten(ll) == IF ll = <<>> THEN <<>> ELSE Head(ll) \o Flatten(Tail(ll))

hardees_selectors(clean_text) ==
    << Sel("button:has-text(\"{}\")", clean_text),
       Sel("a:has-text(\"{}\")", clean_text),
       Sel("[data-test*=\"{}\"]", Lower(clean_text)),
       Sel("[data-testid*=\"{}\"]", Lower(clean_text)),
       Sel("[class*=\"menu\" i] [class*=\"item\" i]:has-text(\"{}\")", clean_text),
       Sel("[class*=\"nav\" i] [class*=\"item\" i]:has-text(\"{}\")", clean_text),
       Sel("[class*=\"btn\" i]:has-text(\"{}\")", clean_text),
       Sel("[class*=\"button\" i]:has-text(\"{}\")", clean_text),
       Sel("[class*=\"link\" i]:has-text(\"{}\")", clean_text),
       Sel("[role=\"button\"]:has-text(\"{}\")", clean_text),
       Sel("[role=\"menuitem\"]:has-text(\"{}\")", clean_text),
       Sel("[role=\"navigation\"] :text-is(\"{}\")", clean_text),
       Sel("[class*=\"header\"] :text-is(\"{}\")", clean_text),
       Sel("[class*=\"menu\"] :text-is(\"{}\")", clean_text),
       Sel("[class*=\"nav\"] :text-is(\"{}\")", clean_text) >>

text_variations(clean_text) ==
    << clean_text, Upper(clean_text), Lower(clean_text), Title(clean_text),
       Capitalize(clean_text) >>

\* what one pass of the loop over text_variations adds to alts
TextSelectors(text) ==
    IF text = EmptyText THEN <<>>
    ELSE << Sel("text={}", text),
            Sel("text=\"{}\"", text),
            Sel(":text-is(\"{}\")", text),
            Sel(":text-matches(\"{}\", \"i\")", text),
            Sel(":has-text(\"{}\")", text),
            Sel("button:text-is(\"{}\")", text),
            Sel("a:text-is(\"{}\")", text),
            Sel("[role=\"button\"]:text-is(\"{}\")", text),
            Sel("[type=\"button\"]:text-is(\"{}\")", text) >>

data_attrs == <<"test", "testid", "qa", "cy", "data-test", "data-qa", "data-cy">>

\* the branch for a selector that does not start with 'text='
CssSelectors(clean_text) ==
    << Sel("{}", clean_text) >>
    \o [j \in 1..Len(data_attrs) |->
          Sel("[" \o data_attrs[j] \o "*=\"{}\"]", Lower(clean_text))]
    \o << Sel(".{}", clean_text),
          Sel("[class*=\"{}\"]", Lower(clean_text)),
          Sel("[class*=\"{}\"]", ReplaceSpaces(Lower(clean_text), "-")),
          Sel("[class*=\"{}\"]", ReplaceSpaces(Lower(clean_text), "_")) >>

generate_alternative_selectors(sel) ==
    LET clean_text == sel.text IN
      Flatten([j \in 1..5 |-> TextSelectors(text_variations(clean_text)[j])])
      \o hardees_selectors(clean_text)
      \o (IF sel.text_prefix THEN <<>> ELSE CssSelectors(clean_text))

\* selectors_to_try.extend([...]) for a selector with 'button' or 'btn' in it:
\* these are formatted from clean_selector, 'text=' included
ButtonFallbacks(sel) ==
    IF sel.button
    THEN << [tpl |-> "button:has-text(\"{}\")", text_prefix |-> sel.text_prefix,
             text |-> sel.text],
            [tpl |-> "[role=\"button\"]:has-text(\"{}\")", text_prefix |-> sel.text_prefix,
             text |-> sel.text],
            [tpl |-> "[onclick*=\"{}\"]", text_prefix |-> sel.text_prefix,
             text |-> Lower(sel.text)] >>
    ELSE <<>>

\* the first part of _wait_for_element: the list the loop then iterates over
WaitGenerate ==
    /\ w_pc = "generate"
    /\ selectors_to_try' = generate_alternative_selectors(clean_selector)
                             \o ButtonFallbacks(clean_selector)
    /\ w_pc' = "generated"
    /\ UNCHANGED <<execVars, planVars, genVars, artVars, compVars, dom, timeout, order, pos, elapsed, found,
                   last_error, attempted>>

\* the substrings of description.lower() that generate_smart_selectors tests for
Keywords ==
    {"button", "login", "sign up", "signup", "submit", "link", "menu", "email",
     "password", "search"}

\* the action types generate_smart_selectors is called with: the two it knows
\* and one it does not
SmartTypes == {"click", "fill", "hover"}

generate_smart_selectors(desc_lower, type) ==
    CASE type = "click" ->
           IF "button" \in desc_lower
           THEN IF "login" \in desc_lower
                THEN << "button[type=\"submit\"]", "input[type=\"submit\"]",
                        "button:has-text(\"login\")", "[data-testid*=\"login\"]",
                        ".login-btn, .btn-login", "#login, #loginBtn" >>
                ELSE IF "sign up" \in desc_lower \/ "signup" \in desc_lower
                THEN << "button:has-text(\"sign up\")", "a:has-text(\"sign up\")",
                        "[data-testid*=\"signup\"]", ".signup-btn, .btn-signup" >>
                ELSE IF "submit" \in desc_lower
                THEN << "button[type=\"submit\"]", "input[type=\"submit\"]",
                        "button:has-text(\"submit\")" >>
                ELSE << "button", "input[type=\"button\"]", "[role=\"button\"]" >>
           ELSE IF "link" \in desc_lower THEN << "a", "a[href]" >>
           ELSE IF "menu" \in desc_lower
           THEN << "[role=\"menu\"]", ".menu", "nav", ".navbar", ".navigation" >>
           ELSE <<>>
      [] type = "fill" ->
           IF "email" \in desc_lower
           THEN << "input[type=\"email\"]", "input[name*=\"email\"]", "#email",
                   "[data-testid*=\"email\"]" >>
           ELSE IF "password" \in desc_lower
           THEN << "input[type=\"password\"]", "input[name*=\"password\"]", "#password",
                   "[data-testid*=\"password\"]" >>
           ELSE IF "search" \in desc_lower
           THEN << "input[type=\"search\"]", "input[name*=\"search\"]", "#search",
                   "[placeholder*=\"search\"]" >>
           ELSE << "input[type=\"text\"]", "input:not([type])", "textarea" >>
      [] OTHER -> <<>>

SmartGenerate ==
    /\ g_pc = "call"
    /\ selectors' = generate_smart_selectors(description, action_type)
    /\ g_pc' = "returned"
    /\ UNCHANGED <<execVars, planVars, waitVars, artVars, compVars, clean_selector, description, action_type>>

\* one call of one of the two generators
InitGen ==
    /\ ExecIdle
    /\ dom = <<>>
    /\ timeout = 0
    /\ order = <<>>
    /\ pos = 0
    /\ elapsed = 0
    /\ found = 0
    /\ last_error = None
    /\ attempted = <<>>
    /\ start_time = 0
    /\ artifacts = {}
    /\ overwritten = FALSE
    /\ selectors_to_try = <<>>
    /\ selectors = <<>>
    /\ PlanIdle
    /\ CompIdle
    /\ \/ /\ w_pc = "generate"
          /\ clean_selector \in Targets
          /\ description = {}
          /\ action_type = None
          /\ g_pc = "idle"
       \/ /\ w_pc = "idle"
          /\ clean_selector = None
          /\ description \in SUBSET Keywords
          /\ action_type \in SmartTypes
          /\ g_pc = "call"

NextGen ==
    \/ WaitGenerate
    \/ SmartGenerate

SpecGen == InitGen /\ [][NextGen]_vars

\* ==================================================== _create_test_actions
Missing == "Missing"

\* The descriptors of the generator's answer: a dict in which the keys
\* action_type and selector are present or not, and which holds a key that
\* TestAction does not know or not.  The selector 'button' is one that
\* _enhance_selector rewrites for a click.
Descriptors ==
    [action_type : {Missing, "navigate", "click", "wait"},
     selector : {Missing, "", "sel", "button"},
     unknown_key : BOOLEAN]

\* _enhance_selector
enhance_selector(selector, type) ==
    IF type = "click" /\ selector = "button" THEN "button:visible" ELSE selector

\* the TestAction built from descriptor number k (description and retry_count
\* take their defaults; the selector is enhanced when it is present and not empty)
NewTestAction(d, k) ==
    [action_type |-> d.action_type,
     selector |-> IF d.selector = Missing THEN None
                  ELSE IF d.selector = "" THEN ""
                  ELSE enhance_selector(d.selector, d.action_type),
     description |-> k,
     retry_count |-> 3,
     screenshot |-> TRUE]

\* one iteration of the for loop: a descriptor without action_type is skipped
\* with a printed warning, one for which TestAction(**action_data) raises is
\* skipped by the except clause, any other is appended
CreateTestAction ==
    /\ data_i >= 1
    /\ data_i <= Len(actions_data)
    /\ LET d == actions_data[data_i] IN
         test_actions' = IF d.action_type = Missing \/ d.unknown_key
                         THEN test_actions
                         ELSE Append(test_actions, NewTestAction(d, data_i))
    /\ data_i' = data_i + 1
    /\ UNCHANGED <<execVars, waitVars, genVars, artVars, compVars, actions_data>>

InitPlan ==
    /\ ExecIdle
    /\ WaitIdle
    /\ GenIdle
    /\ CompIdle
    /\ actions_data \in UNION { [1..n -> Descriptors] : n \in 0..MaxData }
    /\ test_actions = <<>>
    /\ data_i = 1

NextPlan == CreateTestAction

SpecPlan == InitPlan /\ [][NextPlan]_vars

\* ===================================== execute_test: the duration of a step
\* One step of execute_test on a logical clock: timing.now is time.time(), in
\* ticks; an invocation of execute_action takes between 0 and MaxDuration
\* ticks, everything else takes no time.

RECURSIVE Sum(_)
Sum(l) == IF l = <<>> THEN 0 ELSE Head(l) + Sum(Tail(l))

\* start_time = time.time(), at the head of the body of the retry loop
TimeStart ==
    /\ timing.pc = "start"
    /\ timing' = [timing EXCEPT !.start_time = timing.now, !.pc = "call"]
    /\ UNCHANGED <<execVars, waitVars, genVars, planVars, artVars, simple, ext, refs, opt, api>>

\* result = await self.execute_action(action): it passes or fails, after some
\* time
TimeExecute ==
    /\ timing.pc = "call"
    /\ \E d \in 0..MaxDuration, st \in {"passed", "failed"} :
         timing' = [timing EXCEPT !.now = timing.now + d,
                                  !.spent = Append(timing.spent, d),
                                  !.status = st,
                                  !.pc = "stamp"]
    /\ UNCHANGED <<execVars, waitVars, genVars, planVars, artVars, simple, ext, refs, opt, api>>

\* result['duration'] = time.time() - start_time, result['attempt'] = attempt + 1,
\* then the break on 'passed' or the next iteration of range(max_retries)
TimeStamp ==
    /\ timing.pc = "stamp"
    /\ timing' = [timing EXCEPT
                    !.duration = timing.now - timing.start_time,
                    !.attempt = timing.attempt + 1,
                    !.pc = IF timing.status = "passed"
                              \/ timing.attempt + 1 >= timing.max_retries
                           THEN "done" ELSE "start"]
    /\ UNCHANGED <<execVars, waitVars, genVars, planVars, artVars, simple, ext, refs, opt, api>>

InitTiming ==
    /\ ExecIdle
    /\ WaitIdle
    /\ GenIdle
    /\ PlanIdle
    /\ SimpleIdle
    /\ ExtIdle
    /\ RunIdle
    /\ OptIdle
    /\ ApiIdle
    /\ \E n \in 1..MaxRetry, t \in 0..MaxDuration :
         timing = [pc |-> "start", now |-> t, start_time |-> 0, spent |-> <<>>,
                   status |-> None, duration |-> 0, attempt |-> 0, max_retries |-> n]

NextTiming ==
    \/ TimeStart
    \/ TimeExecute
    \/ TimeStamp

SpecTiming == InitTiming /\ [][NextTiming]_vars

\* ============================================ simple_test_agent.py: SimpleTestAgent
\* The number of driver calls navigate, click and fill make before they build
\* their TestResult.
DriverCalls(m) ==
    CASE m = "navigate" -> 2    \* goto, wait_for_load_state
      [] m = "click" -> 3       \* wait_for_selector, scroll_into_view_if_needed, click
      [] OTHER -> 1             \* fill

\* mutant: _take_screenshot lets the exception of page.screenshot through
OutcomeShotRaises(step, failAt, shotOk) ==
    [message |-> step,
     success |-> failAt = 0,
     error |-> IF failAt = 0 THEN None ELSE "Error",
     screenshot |-> IF shotOk THEN "png" ELSE "empty",
     raised |-> ~shotOk,
     driver_failed |-> failAt # 0,
     shot_failed |-> ~shotOk]

\* How a call of navigate, click or fill ends, by the first driver call that
\* raises (0: none) and by whether the screenshot is taken: never with an
\* exception, _take_screenshot returning b'' in place of the image it could
\* not take.  driver_failed and shot_failed are history of the call.
Outcome(step, failAt, shotOk) ==
    [message |-> step,
     success |-> failAt = 0,
     error |-> IF failAt = 0 THEN None ELSE "Error",
     screenshot |-> IF shotOk THEN "png" ELSE "empty",
     raised |-> FALSE,
     driver_failed |-> failAt # 0,
     shot_failed |-> ~shotOk]

\* the outcomes of a call of the primitive m for the step named step
Call(m, step) ==
    { Outcome(step, f, s) : f \in 0..DriverCalls(m), s \in BOOLEAN }

\* the TestResult of an outcome
TestResult(o) ==
    [message |-> o.message, success |-> o.success, error |-> o.error,
     screenshot |-> o.screenshot]

\* the TestResult the except clause of execute_test_plan appends
Unexpected(shotOk) ==
    [message |-> "unexpected", success |-> FALSE, error |-> "Error",
     screenshot |-> IF shotOk THEN "png" ELSE "empty"]

\* no primitive was called yet
NoCall == Outcome("none", 0, TRUE)

\* mutant: the result of a step is appended and the plan goes on whatever it is
AfterNoStop(o, next, stop) ==
    \E s \in BOOLEAN :
      simple' = IF o.raised
                THEN [simple EXCEPT !.results = Append(@, Unexpected(s)),
                                    !.last = o, !.pc = "done"]
                ELSE [simple EXCEPT !.results = Append(@, TestResult(o)),
                                    !.last = o, !.pc = next]

\* results.append(result) and, for the steps that are followed by
\* if not result.success: return results, the return; an exception of the
\* call goes to the except clause of execute_test_plan instead.
After(o, next, stop) ==
    \E s \in BOOLEAN :
      simple' = IF o.raised
                THEN [simple EXCEPT !.results = Append(@, Unexpected(s)),
                                    !.last = o, !.pc = "done"]
                ELSE [simple EXCEPT !.results = Append(@, TestResult(o)),
                                    !.last = o,
                                    !.pc = IF stop /\ ~o.success THEN "done" ELSE next]

SimpleFrame == UNCHANGED <<execVars, waitVars, genVars, planVars, artVars, timing, ext, refs, opt, api>>

\* the branch of execute_test_plan the description selects
Branch ==
    CASE simple.flow = "login" -> "username"
      [] simple.flow = "add to cart" -> "cart_login"
      [] OTHER -> "default"

\* if self.base_url: nav_result = await self.navigate()
SimpleNavigate ==
    /\ simple.pc = "start"
    /\ IF simple.base_url
       THEN \E o \in Call("navigate", "navigate") : After(o, Branch, TRUE)
       ELSE simple' = [simple EXCEPT !.pc = Branch]
    /\ SimpleFrame

SimpleFillUsername ==
    /\ simple.pc = "username"
    /\ \E o \in Call("fill", "username") : After(o, "password", TRUE)
    /\ SimpleFrame

SimpleFillPassword ==
    /\ simple.pc = "password"
    /\ \E o \in Call("fill", "password") : After(o, "login", TRUE)
    /\ SimpleFrame

\* login_result = await self.click(...); the verification follows only
\* if login_result.success
SimpleClickLogin ==
    /\ simple.pc = "login"
    /\ \E o \in Call("click", "login") : After(o, "verify", TRUE)
    /\ SimpleFrame

\* wait_for_selector(".inventory_list") or (".shopping_cart_badge") inside
\* its own try/except: a result is appended either way
SimpleVerify ==
    /\ simple.pc = "verify"
    /\ \E ok \in BOOLEAN, s \in BOOLEAN :
         simple' = [simple EXCEPT
                      !.results = Append(@, [message |-> "verify", success |-> ok,
                                             error |-> IF ok THEN None ELSE "Error",
                                             screenshot |-> IF s THEN "png" ELSE "empty"]),
                      !.pc = "done"]
    /\ SimpleFrame

\* add to cart: two fills and a click whose results are dropped, then
\* wait_for_selector(".inventory_item") outside any inner try
SimpleCartLogin ==
    /\ simple.pc = "cart_login"
    /\ \E a \in Call("fill", "username"), b \in Call("fill", "password"),
          c \in Call("click", "login"), ok \in BOOLEAN, s \in BOOLEAN :
         IF a.raised \/ b.raised \/ c.raised \/ ~ok
         THEN simple' = [simple EXCEPT !.results = Append(@, Unexpected(s)),
                                       !.last = c, !.pc = "done"]
         ELSE simple' = [simple EXCEPT !.last = c, !.pc = "cart_add"]
    /\ SimpleFrame

SimpleCartAdd ==
    /\ simple.pc = "cart_add"
    /\ \E o \in Call("click", "add to cart") : After(o, "verify", TRUE)
    /\ SimpleFrame

\* the default branch: nav_result = await self.navigate()
SimpleDefault ==
    /\ simple.pc = "default"
    /\ \E o \in Call("navigate", "navigate") : After(o, "done", FALSE)
    /\ SimpleFrame

Flows == {"login", "add to cart", "other"}

InitSimple ==
    /\ ExecIdle
    /\ WaitIdle
    /\ GenIdle
    /\ PlanIdle
    /\ TimingIdle
    /\ ExtIdle
    /\ RunIdle
    /\ OptIdle
    /\ ApiIdle
    /\ \E f \in Flows, b \in BOOLEAN :
         simple = [pc |-> "start", flow |-> f, base_url |-> b, results |-> <<>>,
                   last |-> NoCall]

NextSimple ==
    \/ SimpleNavigate
    \/ SimpleFillUsername
    \/ SimpleFillPassword
    \/ SimpleClickLogin
    \/ SimpleVerify
    \/ SimpleCartLogin
    \/ SimpleCartAdd
    \/ SimpleDefault

SpecSimple == InitSimple /\ [][NextSimple]_vars

\* ============================================== _execute_external_navigate
\* ext.page is self.page ("original" or "new"), ext.context and ext.new_page
\* are the context and the page the call opens ("none", "open" or "closed"),
\* ext.shown is the set of pages that show the requested URL, ext.left_open the
\* number of contexts that earlier calls left open.

ExtFrame == UNCHANGED <<execVars, waitVars, genVars, planVars, artVars, timing, simple, refs, opt, api>>

\* the exception leaves the handler
ExtRaise == [ext EXCEPT !.pc = "raised"]

\* url.startswith(...) raises on a selector that is None, outside the try;
\* then context = await self.page.context.browser.new_context()
ExtNewContext ==
    /\ ext.pc = "start"
    /\ IF ~ext.has_url THEN ext' = ExtRaise
       ELSE \E ok \in BOOLEAN :
              ext' = IF ok THEN [ext EXCEPT !.context = "open", !.pc = "new_page"]
                     ELSE [ext EXCEPT !.pc = "fallback"]
    /\ ExtFrame

\* new_page = await context.new_page(); self.page = new_page
ExtNewPage ==
    /\ ext.pc = "new_page"
    /\ \E ok \in BOOLEAN :
         ext' = IF ok THEN [ext EXCEPT !.new_page = "open", !.page = "new", !.pc = "goto"]
                ELSE [ext EXCEPT !.pc = "fallback"]
    /\ ExtFrame

\* await self.page.goto(url, wait_until='domcontentloaded')
ExtGoto ==
    /\ ext.pc = "goto"
    /\ \E ok \in BOOLEAN :
         ext' = IF ok THEN [ext EXCEPT !.shown = @ \cup {ext.page}, !.pc = "idle"]
                ELSE [ext EXCEPT !.shown = @ \ {ext.page}, !.pc = "fallback"]
    /\ ExtFrame

\* await self.page.wait_for_load_state('networkidle'); self.external_context = context
ExtNetworkIdle ==
    /\ ext.pc = "idle"
    /\ \E ok \in BOOLEAN :
         ext' = IF ok THEN [ext EXCEPT !.external_context = "set", !.pc = "returned"]
                ELSE [ext EXCEPT !.pc = "fallback"]
    /\ ExtFrame

\* the except clause: await self.page.goto(url, wait_until='load') on whatever
\* self.page is by now
ExtFallback ==
    /\ ext.pc = "fallback"
    /\ \E ok \in BOOLEAN :
         ext' = IF ok
                THEN [ext EXCEPT !.shown = @ \cup {ext.page},
                                 !.pc = IF ext.new_page = "open" THEN "close_page"
                                        ELSE IF ext.context = "open" THEN "close_context"
                                        ELSE "returned"]
                ELSE [ExtRaise EXCEPT !.shown = @ \ {ext.page}]
    /\ ExtFrame

\* if 'new_page' in locals(): await new_page.close()
ExtClosePage ==
    /\ ext.pc = "close_page"
    /\ \E ok \in BOOLEAN :
         ext' = IF ok THEN [ext EXCEPT !.new_page = "closed", !.shown = @ \ {"new"},
                                       !.pc = "close_context"]
                ELSE ExtRaise
    /\ ExtFrame

\* if 'context' in locals(): await context.close(); self.page = original_page
ExtCloseContext ==
    /\ ext.pc = "close_context"
    /\ \E ok \in BOOLEAN :
         ext' = IF ok THEN [ext EXCEPT !.context = "closed", !.page = "original",
                                       !.pc = "returned"]
                ELSE ExtRaise
    /\ ExtFrame

\* The handler is called again for a later step of the plan, for the same
\* URL or another: the page self.page refers to by now is the original page
\* of the new call, and a context the previous call left open stays open.
ExtAgain ==
    /\ ext.pc \in {"returned", "raised"}
    /\ ext.call < MaxCalls
    /\ \E u \in BOOLEAN, same \in BOOLEAN :
         ext' = [ext EXCEPT !.pc = "start", !.has_url = u, !.call = @ + 1,
                            !.page = "original",
                            !.context = "none", !.new_page = "none",
                            !.left_open = @ + (IF ext.context = "open" THEN 1 ELSE 0),
                            !.shown = IF same /\ ext.page \in ext.shown
                                      THEN {"original"} ELSE {}]
    /\ ExtFrame

InitExt ==
    /\ ExecIdle
    /\ WaitIdle
    /\ GenIdle
    /\ PlanIdle
    /\ TimingIdle
    /\ SimpleIdle
    /\ RunIdle
    /\ OptIdle
    /\ ApiIdle
    /\ \E u \in BOOLEAN, sh \in {{}, {"original"}} :
         ext = [pc |-> "start", has_url |-> u, page |-> "original", context |-> "none",
                new_page |-> "none", shown |-> sh, external_context |-> None, call |-> 1,
                left_open |-> 0]

NextExt ==
    \/ ExtNewContext
    \/ ExtNewPage
    \/ ExtGoto
    \/ ExtNetworkIdle
    \/ ExtFallback
    \/ ExtClosePage
    \/ ExtCloseContext
    \/ ExtAgain

SpecExt == InitExt /\ [][NextExt]_vars

\* ======================= EnhancedTestRunner.run_test_with_progress and cleanup
\* The three revisions of the runner: web_interface.py keeps a persistent
\* context (and never sets self.browser), enhanced_streamlit_app.py and
\* web2.py keep a browser.  A reference is None or "set".
Variants == {"web_interface", "enhanced_streamlit_app", "web2"}

RunFrame == UNCHANGED <<execVars, waitVars, genVars, planVars, artVars, timing, simple, ext, opt, api>>

\* where cleanup starts: the revisions without a context start at the browser
CleanupEntry == IF refs.variant = "web_interface" THEN "c_context" ELSE "c_browser"

\* test_actions = await self.ai_agent.generate_test_actions(...): a plan, an
\* empty plan (return [] inside the try), or an exception
RunGenerate ==
    /\ refs.pc = "generate"
    /\ \E o \in {"plan", "empty", "raised"} :
         refs' = CASE o = "plan" -> [refs EXCEPT !.pc = "initialize"]
                   [] o = "empty" -> [refs EXCEPT !.pc = CleanupEntry, !.path = "empty"]
                   [] OTHER -> [refs EXCEPT !.pc = CleanupEntry, !.path = "critical"]
    /\ RunFrame

\* initialize_playwright: async_playwright().start() if self.playwright is
\* None, then the launch (an earlier run's browser or context is used again
\* if it is still there and alive); when either call raises, its except
\* clause runs cleanup and raises again
RunInitialize ==
    /\ refs.pc = "initialize"
    /\ \E failAt \in 0..2 :
         /\ failAt = 1 => refs.playwright = None
         /\ refs' = CASE failAt = 1 ->
                           [refs EXCEPT !.pc = CleanupEntry, !.after = "reraise"]
                      [] failAt = 2 ->
                           [refs EXCEPT !.playwright = "set", !.pc = CleanupEntry,
                                        !.after = "reraise"]
                      [] OTHER ->
                           IF refs.variant = "web_interface"
                           THEN [refs EXCEPT !.playwright = "set", !.context = "set",
                                             !.pc = "steps"]
                           ELSE [refs EXCEPT !.playwright = "set", !.browser = "set",
                                             !.pc = "steps"]
    /\ RunFrame

\* the step loop: it ends normally, or an exception reaches the outer except
RunSteps ==
    /\ refs.pc = "steps"
    /\ \E critical \in BOOLEAN :
         refs' = [refs EXCEPT !.pc = CleanupEntry,
                              !.path = IF critical THEN "critical" ELSE "normal"]
    /\ RunFrame

\* what a reference is after its block of cleanup, by whether the close or
\* stop call returned: web2.py resets it in a finally clause, the other two
\* revisions after the call, inside the try
Closed(ok) == IF ok \/ refs.variant = "web2" THEN None ELSE "set"

\* if self.context: await self.context.close(); self.context = None
CleanupContext ==
    /\ refs.pc = "c_context"
    /\ IF refs.context = None THEN refs' = [refs EXCEPT !.pc = "c_browser"]
       ELSE \E ok \in BOOLEAN :
              refs' = [refs EXCEPT !.context = Closed(ok), !.pc = "c_browser",
                                   !.raised = @ \/ ~ok]
    /\ RunFrame

\* if self.browser: await self.browser.close(); self.browser = None
CleanupBrowser ==
    /\ refs.pc = "c_browser"
    /\ IF refs.browser = None THEN refs' = [refs EXCEPT !.pc = "c_playwright"]
       ELSE \E ok \in BOOLEAN :
              refs' = [refs EXCEPT !.browser = Closed(ok), !.pc = "c_playwright",
                                   !.raised = @ \/ ~ok]
    /\ RunFrame

\* if self.playwright: await self.playwright.stop(); self.playwright = None;
\* then back to the caller: initialize_playwright raises again and the finally
\* clause of run_test_with_progress runs cleanup once more, or the run returns
CleanupPlaywright ==
    /\ refs.pc = "c_playwright"
    /\ LET next == IF refs.after = "reraise" THEN CleanupEntry ELSE "returned"
           path == IF refs.after = "reraise" THEN "critical" ELSE refs.path IN
         IF refs.playwright = None
         THEN refs' = [refs EXCEPT !.pc = next, !.path = path, !.after = "return"]
         ELSE \E ok \in BOOLEAN :
                refs' = [refs EXCEPT !.playwright = Closed(ok), !.pc = next,
                                     !.path = path, !.after = "return",
                                     !.raised = @ \/ ~ok]
    /\ RunFrame

\* the next run of the same runner, with the references the last one left
RunAgain ==
    /\ refs.pc = "returned"
    /\ refs.run < MaxCalls
    /\ refs' = [refs EXCEPT !.pc = "generate", !.path = None, !.run = @ + 1]
    /\ RunFrame

InitRun ==
    /\ ExecIdle
    /\ WaitIdle
    /\ GenIdle
    /\ PlanIdle
    /\ TimingIdle
    /\ SimpleIdle
    /\ ExtIdle
    /\ OptIdle
    /\ ApiIdle
    /\ \E v \in Variants :
         refs = [pc |-> "generate", variant |-> v, path |-> None, after |-> "return",
                 playwright |-> None, browser |-> None, context |-> None,
                 raised |-> FALSE, run |-> 1]

NextRun ==
    \/ RunGenerate
    \/ RunInitialize
    \/ RunSteps
    \/ CleanupContext
    \/ CleanupBrowser
    \/ CleanupPlaywright
    \/ RunAgain

SpecRun == InitRun /\ [][NextRun]_vars

\* ======================================================== _optimize_actions
\* The actions of the input list: action_type and selector are what the loop
\* reads.  In the output, kept marks the objects of the input list (appended as
\* they are) apart from the TestActions the loop constructs.
OptTypes == {"navigate", "click", "fill", "wait", "hover"}

OptAction == [action_type : OptTypes, selector : {None, "sel"}]

Kept(a) == [action_type |-> a.action_type, selector |-> a.selector, kept |-> TRUE]

\* TestAction(action_type='wait', value=2, ..., screenshot=False)
wait_action == [action_type |-> "wait", selector |-> None, kept |-> FALSE]

\* TestAction(action_type='hover', selector=action.selector, ..., wait_timeout=5000)
hover_action(a) == [action_type |-> "hover", selector |-> a.selector, kept |-> FALSE]

\* mutant: a hover is added before every click, with a selector or without
ExpandEveryClick(a) ==
    CASE a.action_type = "navigate" -> <<Kept(a), wait_action>>
      [] a.action_type = "click" -> <<hover_action(a), Kept(a)>>
      [] OTHER -> <<Kept(a)>>

\* what one iteration of the loop appends to optimized
Expand(a) ==
    CASE a.action_type = "navigate" -> <<Kept(a), wait_action>>
      [] a.action_type = "click" /\ a.selector # None -> <<hover_action(a), Kept(a)>>
      [] OTHER -> <<Kept(a)>>

OptFrame ==
    UNCHANGED <<execVars, waitVars, genVars, planVars, artVars, timing, simple, ext, refs, api>>

\* one iteration of for i, action in enumerate(actions)
OptimizeStep ==
    /\ opt.pc = "loop"
    /\ opt.i <= Len(opt.actions)
    /\ opt' = [opt EXCEPT !.optimized = @ \o Expand(opt.actions[opt.i]), !.i = @ + 1]
    /\ OptFrame

\* return optimized
OptimizeReturn ==
    /\ opt.pc = "loop"
    /\ opt.i > Len(opt.actions)
    /\ opt' = [opt EXCEPT !.pc = "returned"]
    /\ OptFrame

InitOpt ==
    /\ ExecIdle
    /\ WaitIdle
    /\ GenIdle
    /\ PlanIdle
    /\ TimingIdle
    /\ SimpleIdle
    /\ ExtIdle
    /\ RunIdle
    /\ ApiIdle
    /\ \E l \in UNION { [1..n -> OptAction] : n \in 0..MaxActions } :
         opt = [pc |-> "loop", actions |-> l, optimized |-> <<>>, i |-> 1]

NextOpt ==
    \/ OptimizeStep
    \/ OptimizeReturn

SpecOpt == InitOpt /\ [][NextOpt]_vars

\* ================================================ _make_api_call_with_retry
\* api.log is the history of the calls of chat.completions.create, each "ok" or
\* the error it raised; api.sleeps is the history of the backoff sleeps, in
\* seconds.
ApiErrors == {"RateLimitError", "APITimeoutError", "APIConnectionError", "AuthenticationError"}

ApiFrame ==
    UNCHANGED <<execVars, waitVars, genVars, planVars, artVars, timing, simple, ext, refs, opt>>

\* mutant: no attempt is taken for the last one
LastAttemptNever(a, n) == FALSE

\* if attempt == max_retries - 1
LastAttempt(a, n) == a = n - 1

\* one iteration of for attempt in range(max_retries), up to the return, the
\* raise or the sleep
ApiCall ==
    /\ api.pc = "call"
    /\ api.attempt < api.max_retries
    /\ \E o \in {"ok"} \cup ApiErrors :
         api' = IF o = "ok"
                THEN [api EXCEPT !.log = Append(@, o), !.response = "response",
                                 !.pc = "returned"]
                ELSE IF LastAttempt(api.attempt, api.max_retries)
                     THEN [api EXCEPT !.log = Append(@, o), !.error = o, !.pc = "raised"]
                     ELSE [api EXCEPT !.log = Append(@, o), !.pc = "sleep"]
    /\ ApiFrame

\* await asyncio.sleep(2 ** attempt), then the next iteration
ApiSleep ==
    /\ api.pc = "sleep"
    /\ api' = [api EXCEPT !.sleeps = Append(@, 2 ^ api.attempt), !.attempt = @ + 1,
                          !.pc = "call"]
    /\ ApiFrame

\* range(max_retries) is used up: return None
ApiReturnNone ==
    /\ api.pc = "call"
    /\ api.attempt >= api.max_retries
    /\ api' = [api EXCEPT !.pc = "returned"]
    /\ ApiFrame

InitApi ==
    /\ ExecIdle
    /\ WaitIdle
    /\ GenIdle
    /\ PlanIdle
    /\ TimingIdle
    /\ SimpleIdle
    /\ ExtIdle
    /\ RunIdle
    /\ OptIdle
    /\ \E n \in 0..MaxApiRetries :
         api = [pc |-> "call", max_retries |-> n, attempt |-> 0, log |-> <<>>,
                sleeps |-> <<>>, response |-> None, error |-> None]

NextApi ==
    \/ ApiCall
    \/ ApiSleep
    \/ ApiReturnNone

SpecApi == InitApi /\ [][NextApi]_vars

\* ================================================================ properties
\* positions at which the executor is suspended on a driver call of the
\* current action
DriverPcs ==
    {"nav_goto", "nav_idle", "nav_fallback", "click_find", "click_query",
     "click_scroll", "click_settle", "click_highlight", "click_strategy",
     "click_verify", "click_pause", "click_shot", "fill_find", "fill_clear",
     "fill_type", "press_key", "ea_shot", "ea_errshot"}

\* C1: when execute_test returns, results has exactly one entry per input
\* action, whatever the retry_count of each action.
C1_OneResultPerAction == pc = "done" => Len(results) = nActions

\* C2: a failed step never keeps a later step from running: when the run
\* returns, the loop has entered the iteration of every action, and every
\* iteration invoked the action's handler unless the action's own
\* retry_count allows no attempt.
C2_FailedStepDoesNotStopThePlan ==
    /\ pc = "done" => started = nActions
    /\ pc \in {"record", "r_capture", "r_except"}
          => (calls >= 1 \/ (caller = "execute_test" /\ action.retry_count = 0))

C2_Witness ==
    /\ pc = "done"
    /\ nActions = 2
    /\ started = 2
    /\ Len(results) = 2
    /\ results[1].status = "failed"
    /\ results[2].idx = 2
    /\ results[2].status = "passed"

\* C3: execute_action is invoked at most retry_count times for an action, and
\* the attempt recorded for it is in 1..retry_count.
C3_AttemptsBounded ==
    /\ calls <= action.retry_count
    /\ \A j \in 1..Len(results) : results[j].attempt >= 1
    /\ (Len(results) > 0 /\ results[Len(results)].idx = i)
          => results[Len(results)].attempt <= action.retry_count

C3_Witness ==
    /\ pc = "step_sleep"
    /\ action.retry_count = MaxRetry
    /\ calls = MaxRetry
    /\ Len(results) > 0
    /\ results[Len(results)].idx = i
    /\ results[Len(results)].attempt = MaxRetry
    /\ results[Len(results)].status = "failed"

\* C4: in every result, status 'passed' implies error None and status
\* 'failed' implies an error that is not None.
StatusMatchesError(r) ==
    /\ r.status = "passed" => r.error = None
    /\ r.status = "failed" => r.error # None

C4_StatusMatchesError ==
    /\ StatusMatchesError(result)
    /\ \A j \in 1..Len(results) : StatusMatchesError(results[j])

C4_Witness ==
    /\ pc = "done"
    /\ \E j \in 1..Len(results) : results[j].status = "failed"
    /\ \E j \in 1..Len(results) : results[j].status = "passed"

\* C5: the i-th appended result belongs to the i-th input action, and no
\* driver call of an action is issued before the results of all earlier
\* actions are appended.
C5_InInputOrder ==
    /\ \A j \in 1..Len(results) : results[j].idx = j
    /\ pc \in DriverPcs => Len(results) = i - 1

\* C6: no exception raised during a step leaves execute_test; it is caught
\* and becomes a result with status 'failed' carrying the error, and the
\* result recorded for the step is the one its last attempt returned.
C6_NoExceptionEscapes ==
    /\ pc # "propagated"
    /\ pc = "ea_errshot" => (result.status = "failed" /\ result.error \in Errors)
    /\ (pc \in {"err_save", "step_sleep"} /\ Truthy(result))
          => /\ Len(results) > 0
             /\ results[Len(results)] = Entry(result)
             /\ result.idx = i

C6_Witness ==
    /\ pc = "done"
    /\ Len(results) = 2
    /\ results[1].status = "failed"
    /\ results[1].error = "Unsupported action type"
    /\ results[2].status = "passed"

\* C7: an attempt after a failed one starts only after a backoff sleep.
C7_BackoffBeforeRetry ==
    (pc = "retry" /\ attempt >= 1 /\ MoreAttempts(action, attempt)) => slept

\* C8: _wait_for_element tries the candidates in their first-seen list order
\* (duplicates removed, order kept), so the candidate it returns is the first
\* in that order that is found, visible and enabled.
RECURSIVE Dedup(_)
Dedup(l) ==
    IF l = <<>> THEN <<>>
    ELSE LET front == Dedup(SubSeq(l, 1, Len(l) - 1))
             x == l[Len(l)]
         IN IF x \in Range(front) THEN front ELSE Append(front, x)

IsPrefix(a, b) ==
    /\ Len(a) <= Len(b)
    /\ \A j \in 1..Len(a) : a[j] = b[j]

C8_FirstSeenOrder == IsPrefix(attempted, Dedup(selectors_to_try))

\* C9: within one click attempt a strategy is invoked only if every strategy
\* before it raised; nothing is invoked after a strategy that succeeded.
C9_StopAtFirstSuccess ==
    \A k \in 1..(Len(tried) - 1) : tried[k] = "raised"

\* C10: a navigate attempt (with a url) fails only if both tiers raised, and
\* passes with error None when the strict tier raised and the fallback
\* navigation succeeded.
C10_NavigateFailsOnlyIfBothFail ==
    (pc = "ea_return" /\ action.action_type = "navigate" /\ action.selector # None)
      => /\ result.status = "failed"
              => (navTier.strict = "raised" /\ navTier.loose = "raised")
         /\ (navTier.strict = "raised" /\ navTier.loose = "ok")
              => (result.status = "passed" /\ result.error = None)

\* C11: while a failing step is handled, a capture that throws never replaces
\* the error of the step and never leaves the handler: the click handler's
\* screenshot before it gives up is followed by the raise of the click error,
\* and the error screenshots of execute_action and execute_test leave the
\* result failed with the error it had, and the appended results untouched.
C11_CaptureNeverReplacesError ==
    [][ /\ pc = "click_shot"
            => (pc' = "ea_errshot" /\ result'.status = "failed"
                /\ result'.error = "ActionError")
        /\ pc \in {"ea_errshot", "err_save"}
            => /\ result'.status = "failed"
               /\ result'.error = result.error
               /\ results' = results
               /\ pc' \in {"ea_return", AfterStep(result)} ]_vars

C11_Witness ==
    /\ pc = "step_sleep"
    /\ action.action_type = "click"
    /\ action.selector # None
    /\ result.status = "failed"
    /\ result.error = "ActionError"
    /\ result.screenshot = None
    /\ result.screenshot_path = None
    /\ results[Len(results)].error = "ActionError"

\* C12: when the handler succeeded and the screenshot taken after it throws,
\* the exception is swallowed: the result stays 'passed' with error None.
C12_SuccessCaptureSwallowed ==
    [][ pc = "ea_shot" => (result'.status = "passed" /\ result'.error = None) ]_vars

\* C13: two runs on the same page with the same deterministic driver end with
\* the same status: whenever a call of _wait_for_element returned or raised
\* as the driver's answers by the page alone make it, a second call on the
\* same list and the same page that returns or raises ends the same way,
\* whatever order the second process iterates the set in.
C13_SameStatusOnRerun ==
    (w_pc \in {"returned", "raised"} /\ w_pc = WaitRun(order, 1, 0))
      => \A o \in IterationOrders(Range(selectors_to_try)) :
             WaitRun(o, 1, 0) \in {"returned", "raised"} => WaitRun(o, 1, 0) = w_pc

\* C14: on the logical clock, _wait_for_element returns or raises, and does so
\* no later than its timeout plus one sub-wait of at most 5000 ms after it
\* was called.
C14_WithinBudget ==
    /\ w_pc # "hung"
    /\ elapsed <= timeout + SubWaitCap

\* C15: execute_test terminates: every run reaches the return of results.
C15_Terminates == <>(pc = "done")

\* C16: for every target the list _wait_for_element generates, and for every
\* description and action type the list generate_smart_selectors returns, is
\* not empty and holds no entry twice.
NoDuplicates(l) == \A a, b \in 1..Len(l) : l[a] = l[b] => a = b

C16_CandidatesNonEmptyNoDuplicates ==
    /\ w_pc = "generated" => (selectors_to_try # <<>> /\ NoDuplicates(selectors_to_try))
    /\ g_pc = "returned" => (selectors # <<>> /\ NoDuplicates(selectors))

\* C17: on the plan navigate, click, fill with a click target that is never
\* found and every other call succeeding, the report holds exactly three
\* results in the order of the plan: passed, failed with attempt equal to
\* the click's retry_count, passed; the fill ran although the click failed.
C17_MissingClickTarget ==
    /\ (pc = "step_sleep" /\ i = 2)
          => /\ Len(results) = 2
             /\ results[2].status = "failed"
             /\ results[2].attempt = action.retry_count
    /\ pc = "done"
          => /\ Len(results) = 3
             /\ \A j \in 1..3 : results[j].idx = j
             /\ results[1].status = "passed"
             /\ results[2].status = "failed"
             /\ results[3].status = "passed"
             /\ started = 3
             /\ calls >= 1

C17_Witness ==
    /\ pc = "done"
    /\ Len(results) = 3
    /\ results[2].status = "failed"
    /\ results[2].attempt = MaxRetry
    /\ results[3].status = "passed"
    /\ results[3].attempt = 1

\* C18: a click step whose native click always raises and whose dispatched
\* MouseEvent succeeds gives exactly one result, passed, with attempt 1: the
\* step returned from its first invocation after the strategies raised, ok,
\* and the fallback used up no attempt of execute_test.
C18_FallbackUsesNoRetry ==
    action.action_type = "click"
      => /\ pc = "ea_return"
               => (tried = <<"raised", "ok">> /\ result.status = "passed" /\ attempt = 0)
         /\ pc = "step_sleep"
               => /\ calls = 1
                  /\ Cardinality({ j \in 1..Len(results) : results[j].idx = i }) = 1
                  /\ results[Len(results)] =
                        [idx |-> i, status |-> "passed", error |-> None, attempt |-> 1]

C18_Witness ==
    /\ action.action_type = "click"
    /\ action.retry_count = MaxRetry
    /\ pc = "step_sleep"
    /\ calls = 1
    /\ results[Len(results)].idx = i
    /\ results[Len(results)].status = "passed"
    /\ results[Len(results)].attempt = 1

\* C19: a descriptor without action_type does not stop the other descriptors
\* from being processed, and it is not dropped: when _create_test_actions
\* returns, the plan holds a step for every descriptor of the answer, so that
\* the run records a result for it.
C19_MalformedDescriptorKept ==
    data_i > Len(actions_data)
      => \A j \in 1..Len(actions_data) :
            \E k \in 1..Len(test_actions) : test_actions[k].description = j

\* C20: no driver call of a handler is made for an action that is not a wait
\* and has no selector: such an action is rejected before.
C20_NoTargetNoDriverCall ==
    (pc \in DriverPcs \ {"ea_shot", "ea_errshot"} /\ action.action_type # "wait")
      => action.selector # None

\* C21: the attempts of an action are numbered 1, 2, 3, ... in the order of
\* the invocations of execute_action; an invocation starts only while no
\* attempt has passed and fewer than retry_count attempts were made, and the
\* retry loop ends with a result that passed at the attempt just made, or with
\* the failed result of attempt number retry_count.
C21_AttemptsConsecutive ==
    /\ pc = "retry" => (calls = attempt /\ result.status # "passed")
    /\ pc \in DriverPcs \cup {"wait_sleep", "ea_return", "hung"}
          => (calls = attempt + 1 /\ calls <= action.retry_count)
    /\ pc = "ea_return" => result.attempt = 0
    /\ (pc \in {"record", "err_save", "step_sleep"} /\ Truthy(result))
          => /\ result.attempt = calls
             /\ result.status = "passed" \/ calls = action.retry_count

C21_Witness ==
    /\ pc = "step_sleep"
    /\ action.retry_count = MaxRetry
    /\ result.status = "passed"
    /\ result.attempt = MaxRetry
    /\ calls = MaxRetry

\* C22: for a click step, the units of one lookup of the element followed by
\* the strategy chain, counted over the whole step, never exceed retry_count:
\* each earlier invocation of execute_action made at least one, and the
\* invocation that is running has made clickAttempt + 1.
C22_ClickUnitsBounded ==
    (action.action_type = "click" /\ action.selector # None /\ pc \in DriverPcs
       /\ pc \notin {"ea_shot", "ea_errshot"})
      => (calls - 1) + (clickAttempt + 1) <= action.retry_count

\* C23: the primitive of a step succeeds at most once: within one click
\* attempt at most one strategy succeeds, and no attempt is started after one
\* whose handler returned (which is when the capture after it can raise).
C23_PrimitiveAtMostOnce ==
    /\ Cardinality({ k \in 1..Len(tried) : tried[k] = "ok" }) <= 1
    /\ (pc = "retry" /\ MoreAttempts(action, attempt)) => result.error # "CaptureError"

\* C25: a click strategy is invoked only on an element the lookup verified:
\* never on one taken unverified from query_selector_all.
C25_ClickOnlyVerifiedElement ==
    pc \in {"click_strategy", "click_verify", "click_pause"} => element # "queried"

\* C28: a click attempt whose strategy chain was entered fails only after
\* every strategy of the chain was invoked and raised.
C28_EveryStrategyAttempted ==
    (pc \in {"click_backoff", "click_shot"} /\ tried # <<>>)
      => /\ Len(tried) = NumStrategies
         /\ \A k \in 1..Len(tried) : tried[k] = "raised"

C24_ReturnsOnlyInteractable ==
    [][ /\ w_pc' = "returned"
            => (w_pc = "check" /\ dom[Candidate] = "ok" /\ found' = Candidate)
        /\ (w_pc = "check" /\ dom[Candidate] # "ok")
            => (w_pc' = "loop" /\ pos' = pos + 1 /\ found' = 0) ]_vars

C24_Witness ==
    /\ w_pc = "returned"
    /\ dom[found] = "ok"
    /\ \E k \in 1..(Len(attempted) - 1) : dom[attempted[k]] = "disabled"

\* C26: a sub-wait is started only while the rest of the budget is strictly
\* positive, so the timeout it is given, min(5000, rest), is strictly positive.
C26_SubWaitTimeoutPositive ==
    w_pc = "wait" => (timeout - elapsed > 0 /\ Min(SubWaitCap, timeout - elapsed) > 0)

\* C27: every candidate the raised error names was attempted, and the error
\* carries a driver error when a sub-wait raised one.
C27_NamedWereAttempted ==
    w_pc = "raised"
      => /\ Range(Named) \subseteq Range(attempted)
         /\ (\E k \in 1..Len(attempted) : dom[attempted[k]] = "absent") => last_error # None

\* C30: within one process, no capture of diagnostics writes a path that an
\* earlier capture wrote.
C30_CapturesNeverCollide ==
    ~overwritten

\* C31: the duration recorded for a step that passes on an attempt after the
\* first covers all the attempts of the step: it is at least the sum of their
\* durations.
C31_DurationCoversAllAttempts ==
    (timing.pc = "done" /\ timing.status = "passed" /\ timing.attempt > 1)
      => timing.duration >= Sum(timing.spent)

\* C32: every action type execute_action accepts has a working handler: the
\* 'Unsupported action type' error is only for the types outside the accepted
\* set, and a step of an accepted type whose handler makes no driver call (so
\* none of them raised) does not fail in the handler.
C32_AcceptedTypesHaveHandler ==
    (pc \in {"ea_errshot", "ea_return"} /\ result.status = "failed")
      => /\ result.error = "Unsupported action type" => action.action_type = "drag"
         /\ result.error = "ActionError" => action.action_type # "check"

\* the steps of the login flow, with and without the navigation to base_url
LoginPlan ==
    IF simple.base_url THEN <<"navigate", "username", "password", "login", "verify">>
    ELSE <<"username", "password", "login", "verify">>

\* C33: in the login flow of execute_test_plan the results are those of a
\* prefix of the planned steps, and only the last of them can be a failure:
\* no step is executed after one that failed.
C33_LoginStopsAtFirstFailure ==
    simple.flow = "login"
      => /\ Len(simple.results) <= Len(LoginPlan)
         /\ \A k \in 1..Len(simple.results) : simple.results[k].message = LoginPlan[k]
         /\ \A k \in 1..(Len(simple.results) - 1) : simple.results[k].success

C33_Witness ==
    /\ simple.pc = "done"
    /\ simple.flow = "login"
    /\ simple.base_url
    /\ Len(simple.results) = 2
    /\ ~simple.results[2].success

C34_RunnerPassedMeansSucceeded ==
    (pc = "r_capture" /\ action.action_type \notin RunnerTypes)
      => result.status = "passed"

\* C35: when _execute_external_navigate returns, self.page is an open page
\* that shows the requested URL; when it raises, self.page is the page the
\* executor had before and what the call opened is closed.
C35_PageConsistentWithOutcome ==
    /\ ext.pc = "returned"
         => /\ ext.page \in ext.shown
            /\ ext.page = "new" => ext.new_page = "open"
    /\ ext.pc = "raised"
         => /\ ext.page = "original"
            /\ ext.context # "open"
            /\ ext.new_page # "open"

\* C36: when run_test_with_progress has returned, on any path, the runner
\* holds no context, browser or playwright reference, also when a close or
\* stop call raised during cleanup.
C36_NoReferenceAfterReturn ==
    refs.pc = "returned"
      => (refs.context = None /\ refs.browser = None /\ refs.playwright = None)

\* the input actions among the elements of l, in order
RECURSIVE KeptOnly(_)
KeptOnly(l) ==
    IF l = <<>> THEN <<>>
    ELSE IF Head(l).kept
         THEN <<[action_type |-> Head(l).action_type, selector |-> Head(l).selector]>>
                \o KeptOnly(Tail(l))
         ELSE KeptOnly(Tail(l))

NeedsWait(a) == a.action_type = "navigate"
NeedsHover(a) == a.action_type = "click" /\ a.selector # None

\* C38: the output of _optimize_actions holds every input action once, in
\* the input order; what it adds is one wait right after each navigate and one
\* hover, on the same selector, right before each click with a selector, and
\* nothing else: its length is n + #navigate + #click-with-selector.
C38_OptimizeKeepsAndAdds ==
    opt.pc = "returned"
      => LET out == opt.optimized
             n == Len(out) IN
           /\ KeptOnly(out) = opt.actions
           /\ \A k \in 1..n :
                /\ out[k].kept /\ NeedsWait(out[k])
                     => (k < n /\ out[k + 1] = wait_action)
                /\ out[k].kept /\ NeedsHover(out[k])
                     => (k > 1 /\ out[k - 1] = hover_action(out[k]))
                /\ ~out[k].kept
                     => \/ /\ out[k] = wait_action
                           /\ k > 1 /\ out[k - 1].kept /\ NeedsWait(out[k - 1])
                        \/ /\ k < n /\ out[k + 1].kept /\ NeedsHover(out[k + 1])
                           /\ out[k] = hover_action(out[k + 1])
           /\ n = Len(opt.actions)
                  + Cardinality({ k \in 1..Len(opt.actions) : NeedsWait(opt.actions[k]) })
                  + Cardinality({ k \in 1..Len(opt.actions) : NeedsHover(opt.actions[k]) })

C38_Witness ==
    /\ opt.pc = "returned"
    /\ Len(opt.actions) = 2
    /\ opt.actions[1].action_type = "navigate"
    /\ opt.actions[2].action_type = "click"
    /\ opt.actions[2].selector # None
    /\ Len(opt.optimized) = 4

\* C39: _make_api_call_with_retry makes at most max_retries calls and none
\* after a call that succeeded, whose response it returns; it sleeps 2^attempt
\* seconds after each failed call but the last and nowhere else; when all
\* max_retries calls failed it raises the error of the last.
C39_ApiRetry ==
    LET n == Len(api.log) IN
      /\ n <= api.max_retries
      /\ \A k \in 1..(n - 1) : api.log[k] # "ok"
      /\ \A k \in 1..Len(api.sleeps) : api.sleeps[k] = 2 ^ (k - 1)
      /\ api.pc = "call" => Len(api.sleeps) = n
      /\ api.pc = "sleep" => (Len(api.sleeps) = n - 1 /\ n < api.max_retries)
      /\ (api.pc = "returned" /\ api.max_retries > 0)
           => (api.log[n] = "ok" /\ api.response = "response" /\ Len(api.sleeps) = n - 1)
      /\ api.pc = "raised"
           => /\ n = api.max_retries
              /\ \A k \in 1..n : api.log[k] # "ok"
              /\ api.error = api.log[n]
              /\ Len(api.sleeps) = n - 1

C39_Witness ==
    /\ api.pc = "raised"
    /\ api.max_retries = 3
    /\ api.sleeps = <<1, 2>>
    /\ api.error = api.log[3]
    /\ api.log[1] # api.log[3]

====
